---- MODULE Spec2Model ----
(***************************************************************************)
(* Model of SD-WingetDeploy (src/winget.py): the install run               *)
(* (run_winget_ps_install driven by WingetInstallerApp._install_worker),   *)
(* the application's run triggers and completion handlers, and the pipes   *)
(* between the orchestrator and the backend script.                        *)
(*                                                                         *)
(* Text is modelled as a sequence of tokens.  A token is one character     *)
(* (" ", ",", "a", "b") or one of the three marker literals the regular   *)
(* expressions of run_winget_ps_install search for.                        *)
(***************************************************************************)
EXTENDS Integers, Sequences, FiniteSets, Bags, TLC

\* ------------------------------------------------------------------ bounds

\* Most stdout lines the child writes in one install run.
MaxLines == 4

\* The user starts a run only while fewer than MaxThreads background threads
\* are alive or about to be started.
MaxThreads == 2

\* Posted callbacks that may wait for the main loop at once; a worker thread
\* that would exceed it waits for the main loop to catch up.
MaxQueue == 3

\* Chunks a pipe holds before a write to it blocks.
PipeCap == 2

\* Most chunks the child writes to its two pipes in one run.
MaxWrites == 5

\* ------------------------------------------------------------- text helpers

re_start == "Installing app via winget:"

re_ok == "App installed successfully:"

re_failed == "FAILED_APPS:"

\* Characters str.strip() removes (the lines hold no CR / LF after rstrip).
Whitespace == {" "}

RECURSIVE LStrip(_)
LStrip(s) == IF s # <<>> /\ Head(s) \in Whitespace THEN LStrip(Tail(s)) ELSE s

RECURSIVE RStrip(_)
RStrip(s) ==
    IF s # <<>> /\ s[Len(s)] \in Whitespace
    THEN RStrip(SubSeq(s, 1, Len(s) - 1))
    ELSE s

\* str.strip()
Strip(s) == RStrip(LStrip(s))

\* str.split(sep): the pieces between the separators, empty pieces kept.
RECURSIVE SplitAcc(_, _, _)
SplitAcc(s, sep, cur) ==
    IF s = <<>> THEN <<cur>>
    ELSE IF Head(s) = sep THEN <<cur>> \o SplitAcc(Tail(s), sep, <<>>)
    ELSE SplitAcc(Tail(s), sep, Append(cur, Head(s)))

Split(s, sep) == SplitAcc(s, sep, <<>>)

RECURSIVE SelectNonEmpty(_)
SelectNonEmpty(ps) ==
    IF ps = <<>> THEN <<>>
    ELSE IF Head(ps) = <<>> THEN SelectNonEmpty(Tail(ps))
    ELSE <<Head(ps)>> \o SelectNonEmpty(Tail(ps))

RECURSIVE StripAll(_)
StripAll(ps) ==
    IF ps = <<>> THEN <<>> ELSE <<Strip(Head(ps))>> \o StripAll(Tail(ps))

\* [s.strip() for s in tail.split(",") if s.strip()]
ParseFailedList(tail) == SelectNonEmpty(StripAll(Split(tail, ",")))

NoMatch == [matched |-> FALSE, group1 |-> <<>>]

\* re.compile(marker + r"\s*(.+)$").search(line): the leftmost occurrence of
\* the marker that is followed by at least one character.  \s* is greedy and
\* (.+) takes the rest of the line; when the rest is whitespace only, the
\* regex backtracks and group 1 is the last whitespace character.
ReSearch(marker, line) ==
    LET idx == {i \in 1..(Len(line) - 1) : line[i] = marker}
    IN  IF idx = {} THEN NoMatch
        ELSE LET i == CHOOSE k \in idx : \A j \in idx : k <= j
                 rest == SubSeq(line, i + 1, Len(line))
                 g == IF LStrip(rest) = <<>> THEN <<rest[Len(rest)]>>
                      ELSE LStrip(rest)
             IN  [matched |-> TRUE, group1 |-> g]

\* ------------------------------------------------------------------- state

VARIABLES
    app_ids,                 \* ids handed to run_winget_ps_install
    script_exists,           \* WINGET_SETUP_PS.exists()
    wpc,                     \* position of _install_worker
    stream,                  \* stdout lines read so far, in order
    installed,               \* run_winget_ps_install: installed
    failed_ids_from_summary, \* run_winget_ps_install: failed_ids_from_summary
    done,                    \* _install_worker: state["done"]
    delivered,               \* events handed to on_event so far (history)
    outcome,                 \* what run_winget_ps_install returned or raised
    proc,                    \* the child process: "none", "running", "exited"
    afterQueue,              \* callbacks posted with self.after(0, ...)
    uiLog,                   \* callbacks the Tk main loop has run (history)
    progress,                \* self.progress
    status,                  \* self.status_lbl text
    installing,              \* self._installing
    btn_install,             \* self.btn_install is enabled
    btn_fix,                 \* self.btn_fix_winget is enabled
    btn_upgrade,             \* self.btn_upgrade_all is enabled
    selected,                \* the keys whose package_vars entry is True
    workers,                 \* the application's background threads (a bag)
    modal,                   \* the modal question the Tk thread waits in
    child_plan,              \* the writes the child has still to do
    stdout_pipe,             \* chunks waiting in the child's stdout pipe
    stderr_pipe,             \* chunks waiting in the child's stderr pipe
    winget_state,            \* self._winget_state
    winget_version,          \* self._winget_version (<<>> is None)
    appinstaller_version,    \* self._appinstaller_version (<<>> is None)
    dep_labels,              \* self.dep_labels: state and text per dependency
    log_writes,              \* the attempts to write a log file, in order
    setup_call,              \* the call of run_winget_ps_setup in progress
    accepted                 \* the selection _on_install_clicked last accepted (history)

\* One install run in detail.
runVars == <<app_ids, wpc, stream, installed, failed_ids_from_summary, done,
             delivered, outcome, proc>>

\* The application and its abstract background threads.
appVars == <<btn_fix, btn_upgrade, selected, workers, modal>>

pipeVars == <<child_plan, stdout_pipe, stderr_pipe>>

\* The stored dependency status, and with the labels the dependency panel.
depStatus == <<winget_state, winget_version, appinstaller_version>>

depVars == <<depStatus, dep_labels>>

\* run_winget_ps_setup in detail, and the log files of the application.
setupVars == <<log_writes, setup_call>>

\* What the user had selected when the last install was accepted.
histVars == <<accepted>>

vars == <<runVars, appVars, pipeVars, depVars, setupVars, histVars, script_exists, afterQueue, uiLog,
          progress, status, installing, btn_install>>

\* ------------------------------------------------------ the package catalog

\* PACKAGES: two catalog entries stand for the table; an id is a text.
PackageIds == {<<"a">>, <<"b">>}

\* id_to_name.get(cur_id, cur_id)
IdToName(id) ==
    IF id = <<"a">> THEN <<"App A">>
    ELSE IF id = <<"b">> THEN <<"App B">>
    ELSE id

\* The id lists a run is started with ([PACKAGES[k].id for k in selected_keys]).
AppIdLists == {<<>>, <<<<"a">>>>, <<<<"a">>, <<"b">>>>}

\* The stdout lines the backend script can write.
Lines == {
    <<re_start, " ", "a">>,
    <<re_ok, " ", "a">>,
    <<re_start, " ", "b">>,
    <<re_ok, " ", "b", " ">>,
    <<re_failed, " ", "a", ",", " ", "b", ",">>,
    <<re_failed, "b">>,
    <<re_failed, " ", ",">>,
    <<"a", " ", re_ok>>
}

\* The lines of the runs that are followed into the Tk main loop.
UiLines == {
    <<re_start, " ", "a">>,
    <<re_ok, " ", "a">>,
    <<re_ok, " ", "b", " ">>,
    <<re_failed, "b">>,
    <<"a", " ", re_ok>>
}

\* Lines in which more than one marker occurs, beside plain ones.
MarkerLines == {
    <<re_start, " ", re_ok, " ", "a">>,
    <<re_ok, " ", re_start, " ", "a">>,
    <<re_ok, " ", re_failed, " ", "a">>,
    <<re_start, " ", re_failed, " ", "a">>,
    <<re_failed, " ", "b">>,
    <<re_ok, " ", "a">>,
    <<"b", " ", re_failed>>
}

\* The exit codes and the stderr texts (a sequence of lines) of the child.
ExitCodes == {0, 1, 2}

StderrTexts == {<<>>, <<"winget: error">>}

\* splitlines()[:10]
StderrExcerptLines == 10

FirstLines(ls, n) == IF Len(ls) <= n THEN ls ELSE SubSeq(ls, 1, n)

\* A progress fraction n / d is the pair <<n, d>>.
Frac(n, d) == <<n, d>>

NoOutcome == [kind |-> "none", installed |-> <<>>, failed |-> <<>>,
              rc |-> 0, msg |-> <<>>]

\* ------------------------------------------------------ Tk after() callbacks

\* A posted callback: the function, its arguments (a text, numbers, a name)
\* and, for the history, the number of the stdout line that caused it (0 when
\* none did).
Cb(fn, text, nums, name, src) ==
    [fn |-> fn, text |-> text, nums |-> nums, name |-> name, src |-> src]

\* Mutant of Post: the newest callback runs first.
PostFront(q, cb) == <<cb>> \o q

\* self.after(0, f, ...): Tk runs the callbacks posted with the same delay in
\* the order they were posted.
Post(q, cb) == Append(q, cb)

RECURSIVE PostAll(_, _)
PostAll(q, cbs) ==
    IF cbs = <<>> THEN q ELSE PostAll(Post(q, Head(cbs)), Tail(cbs))

\* --------------------------------------------- _install_worker and on_event

Ev(kind, arg) == [kind |-> kind, arg |-> arg]

\* on_event(ev): the new value of state["done"].
OnEventDone(d, ev) == IF ev.kind = "ok" THEN d + 1 ELSE d

\* on_event(ev): the callbacks it posts; d is state["done"] before the call.
OnEventPosts(d, total, ev, src) ==
    IF ev.kind = "start"
    THEN << Cb("progress.set", "", IF total # 0 THEN Frac(d, total) ELSE Frac(0, 1),
               <<>>, src),
            Cb("status", "[{done}/{total}] Installiere: {cur_name}",
               <<d, total>>, IdToName(ev.arg), src) >>
    ELSE IF ev.kind = "ok"
    THEN << Cb("progress.set", "",
               IF total # 0 THEN Frac(d + 1, total) ELSE Frac(1, 1), <<>>, src),
            Cb("status", "{done}/{total} Programme installiert",
               <<d + 1, total>>, <<>>, src) >>
    ELSE <<>>

\* Mutant of LineEvents: a marker line yields its marker event instead of the
\* raw line event.
LineEventsMarkerOnly(line) ==
    LET ms == ReSearch(re_start, line)
        mk == ReSearch(re_ok, line)
    IN  IF ms.matched THEN <<Ev("start", Strip(ms.group1))>>
        ELSE IF mk.matched THEN <<Ev("ok", Strip(mk.group1))>>
        ELSE <<Ev("line", line)>>

\* Mutant of LineEvents: every marker found in the line yields its event.
LineEventsAllMarkers(line) ==
    LET ms == ReSearch(re_start, line)
        mk == ReSearch(re_ok, line)
    IN  <<Ev("line", line)>>
        \o (IF ms.matched THEN <<Ev("start", Strip(ms.group1))>> ELSE <<>>)
        \o (IF mk.matched THEN <<Ev("ok", Strip(mk.group1))>> ELSE <<>>)

\* The events one stdout line produces, in the order on_event receives them.
LineEvents(line) ==
    LET ms == ReSearch(re_start, line)
        mk == ReSearch(re_ok, line)
    IN  IF ms.matched THEN <<Ev("line", line), Ev("start", Strip(ms.group1))>>
        ELSE IF mk.matched THEN <<Ev("line", line), Ev("ok", Strip(mk.group1))>>
        ELSE <<Ev("line", line)>>

\* Mutant of LineInstalled: the newest Ok id is put first.
LineInstalledPrepend(inst, line) ==
    LET ms == ReSearch(re_start, line)
        mk == ReSearch(re_ok, line)
    IN  IF ~ms.matched /\ mk.matched THEN <<Strip(mk.group1)>> \o inst
        ELSE inst

\* installed after the line.
LineInstalled(inst, line) ==
    LET ms == ReSearch(re_start, line)
        mk == ReSearch(re_ok, line)
    IN  IF ~ms.matched /\ mk.matched THEN Append(inst, Strip(mk.group1))
        ELSE inst

\* Mutant of LineFailedSummary: the first non-empty list is kept.
LineFailedSummaryFirst(fs, line) ==
    LET ms == ReSearch(re_start, line)
        mk == ReSearch(re_ok, line)
        mf == ReSearch(re_failed, line)
    IN  IF ~ms.matched /\ ~mk.matched /\ mf.matched /\ fs = <<>>
        THEN ParseFailedList(Strip(mf.group1))
        ELSE fs

\* failed_ids_from_summary after the line.
LineFailedSummary(fs, line) ==
    LET ms == ReSearch(re_start, line)
        mk == ReSearch(re_ok, line)
        mf == ReSearch(re_failed, line)
    IN  IF ~ms.matched /\ ~mk.matched /\ mf.matched
        THEN ParseFailedList(Strip(mf.group1))
        ELSE fs

RECURSIVE DeliverAll(_, _, _, _)
\* Calls on_event for each event in turn: [done, posts].
DeliverAll(d, total, evs, src) ==
    IF evs = <<>> THEN [done |-> d, posts |-> <<>>]
    ELSE LET r == DeliverAll(OnEventDone(d, Head(evs)), total, Tail(evs), src)
         IN  [done |-> r.done,
              posts |-> OnEventPosts(d, total, Head(evs), src) \o r.posts]

RECURSIVE Tagged(_, _)
Tagged(evs, src) ==
    IF evs = <<>> THEN <<>>
    ELSE <<[ev |-> Head(evs), src |-> src]>> \o Tagged(Tail(evs), src)

\* Mutant of FinalFailed: without a FAILED_APPS list, the requested ids that
\* were not installed count as failed.
FinalFailedInferred(fs) ==
    IF fs # <<>> THEN fs
    ELSE SelectSeq(app_ids,
                   LAMBDA id : \A i \in 1..Len(installed) : installed[i] # id)

\* The final reconciliation of run_winget_ps_install.
FinalFailed(fs) == IF fs # <<>> THEN fs ELSE <<>>

\* Mutant of MustRaise: only exit code 1 raises.
MustRaiseExitOne(rc, failed, inst) == rc = 1 /\ failed = <<>> /\ inst = <<>>

\* Mutant of MustRaise: the ok-list is not consulted.
MustRaiseIgnoringOk(rc, failed, inst) == rc # 0 /\ failed = <<>>

MustRaise(rc, failed, inst) == rc # 0 /\ failed = <<>> /\ inst = <<>>

ErrorExcerpt(err) ==
    FirstLines(IF err # <<>> THEN err ELSE <<"Unbekannter Fehler">>,
               StderrExcerptLines)

Result(inst, failed, rc) ==
    [kind |-> "result", installed |-> inst, failed |-> failed, rc |-> rc,
     msg |-> <<>>]

Raised(exc, rc, msg) ==
    [kind |-> exc, installed |-> <<>>, failed |-> <<>>, rc |-> rc, msg |-> msg]

InstallWorkerStart ==
    /\ wpc = "start"
    /\ IF app_ids = <<>>
       THEN /\ afterQueue' = Post(afterQueue,
                   Cb("_finish_success", "", <<0, 0, 0>>, <<>>, 0))
            /\ wpc' = "finished"
       ELSE /\ afterQueue' = PostAll(afterQueue,
                   << Cb("progress.set", "", Frac(0, 1), <<>>, 0),
                      Cb("status", "Installiere {total} Programme",
                         <<Len(app_ids)>>, <<>>, 0) >>)
            /\ wpc' = "call"
    /\ done' = 0
    /\ UNCHANGED <<histVars, setupVars, depVars, pipeVars, appVars, proc, app_ids, script_exists, stream, installed,
                   failed_ids_from_summary, delivered, outcome, uiLog,
                   progress, status, installing, btn_install>>

RunInstallCall ==
    /\ wpc = "call"
    /\ IF app_ids = <<>>
       THEN /\ outcome' = Result(<<>>, <<>>, 0)
            /\ wpc' = "returned"
       ELSE IF ~script_exists
       THEN /\ outcome' = Raised("FileNotFoundError", 0,
                                 <<"Winget-Installscript nicht gefunden">>)
            /\ wpc' = "raised"
       ELSE /\ outcome' = outcome
            /\ wpc' = "read"
    /\ proc' = IF app_ids # <<>> /\ script_exists THEN "running" ELSE proc
    /\ installed' = <<>>
    /\ failed_ids_from_summary' = <<>>
    /\ UNCHANGED <<histVars, setupVars, depVars, pipeVars, appVars, app_ids, script_exists, stream, done, delivered,
                   uiLog, progress, status, afterQueue, installing,
                   btn_install>>

\* One iteration of "for line in proc.stdout".
ReadLine(line) ==
    /\ wpc = "read"
    /\ Len(stream) < MaxLines
    /\ LET src == Len(stream) + 1
           evs == LineEvents(line)
           r == DeliverAll(done, Len(app_ids), evs, src)
       IN  /\ stream' = Append(stream, line)
           /\ delivered' = delivered \o Tagged(evs, src)
           /\ done' = r.done
           /\ afterQueue' = PostAll(afterQueue, r.posts)
    /\ installed' = LineInstalled(installed, line)
    /\ failed_ids_from_summary' = LineFailedSummary(failed_ids_from_summary, line)
    /\ UNCHANGED <<histVars, setupVars, depVars, pipeVars, appVars, proc, app_ids, script_exists, wpc, outcome, uiLog, progress,
                   status, installing, btn_install>>

\* The stream closes: proc.wait(), proc.stderr.read(), the reconciliation.
StreamClose(rc, err) ==
    /\ wpc = "read"
    /\ LET failed == FinalFailed(failed_ids_from_summary)
       IN  IF MustRaise(rc, failed, installed)
           THEN /\ outcome' = Raised("RuntimeError", rc, ErrorExcerpt(err))
                /\ wpc' = "raised"
           ELSE /\ outcome' = Result(installed, failed, rc)
                /\ wpc' = "returned"
    /\ proc' = "exited"
    /\ UNCHANGED <<histVars, setupVars, depVars, pipeVars, appVars, app_ids, script_exists, stream, installed,
                   failed_ids_from_summary, done, delivered, uiLog, progress,
                   status, afterQueue, installing, btn_install>>

\* Mutant of ReturnedPosts: the warning branch falls through to the plain one.
ReturnedPostsFallThrough(ok, fail, total) ==
    <<Cb("progress.set", "", Frac(1, 1), <<>>, 0)>>
    \o (IF fail > 0
        THEN << Cb("showwarning", "Teilweise fertig", <<>>, <<>>, 0),
                Cb("_finish_success", "", <<ok, fail, total>>, <<>>, 0) >>
        ELSE <<>>)
    \o <<Cb("_finish_success", "", <<ok, 0, total>>, <<>>, 0)>>

\* Mutant of ReturnedPosts: after the warning no completion handler is posted.
ReturnedPostsWarningOnly(ok, fail, total) ==
    <<Cb("progress.set", "", Frac(1, 1), <<>>, 0)>>
    \o (IF fail > 0
        THEN <<Cb("showwarning", "Teilweise fertig", <<>>, <<>>, 0)>>
        ELSE <<Cb("_finish_success", "", <<ok, 0, total>>, <<>>, 0)>>)

\* What _install_worker posts after run_winget_ps_install returned: the full
\* progress bar, the warning when ids failed, and _finish_success.
ReturnedPosts(ok, fail, total) ==
    <<Cb("progress.set", "", Frac(1, 1), <<>>, 0)>>
    \o (IF fail > 0
        THEN << Cb("showwarning", "Teilweise fertig", <<>>, <<>>, 0),
                Cb("_finish_success", "", <<ok, fail, total>>, <<>>, 0) >>
        ELSE <<Cb("_finish_success", "", <<ok, 0, total>>, <<>>, 0)>>)

\* _install_worker after run_winget_ps_install returned.
InstallWorkerReturned ==
    /\ wpc = "returned"
    /\ LET ok == Len(outcome.installed)
           fail == Len(outcome.failed)
           total == Len(app_ids)
       IN  afterQueue' = PostAll(afterQueue, ReturnedPosts(ok, fail, total))
    /\ wpc' = "finished"
    /\ UNCHANGED <<histVars, setupVars, depVars, pipeVars, appVars, proc, app_ids, script_exists, stream, installed,
                   failed_ids_from_summary, done, delivered, outcome, uiLog,
                   progress, status, installing, btn_install>>

\* _install_worker: except Exception as exc.
InstallWorkerRaised ==
    /\ wpc = "raised"
    /\ afterQueue' = Post(afterQueue, Cb("_finish_error", "", <<>>, outcome.msg, 0))
    /\ wpc' = "finished"
    /\ UNCHANGED <<histVars, setupVars, depVars, pipeVars, appVars, proc, app_ids, script_exists, stream, installed,
                   failed_ids_from_summary, done, delivered, outcome, uiLog,
                   progress, status, installing, btn_install>>

\* ------------------------------------------------ the Tk main loop (install)

FinishSuccessStatus(ok, fail, total) ==
    IF total = 0 THEN Cb("status", "Fertig", <<>>, <<>>, 0)
    ELSE IF fail > 0
    THEN Cb("status", "Fertig (Warnung) {ok}/{total} installiert, {fail} uebersprungen",
            <<ok, total, fail>>, <<>>, 0)
    ELSE Cb("status", "Fertig {ok}/{total} installiert", <<ok, total>>, <<>>, 0)

\* ------------------------------------------------ the dependency probes

\* DepKey
DepKeys == {"winget", "powershell", "desktop_app_installer"}

\* A dependency label: the UiState that gives icon and colour, the text, and
\* the version shown in brackets (<<>> when none is shown).
Label(ui, text, ver) == [ui |-> ui, text |-> text, ver |-> ver]

\* DEP_LABELS
DepLabelText(dep) ==
    CASE dep = "winget" -> "Winget verfuegbar"
      [] dep = "powershell" -> "PowerShell verfuegbar"
      [] dep = "desktop_app_installer" -> "App Installer / Store Backend"

MIN_WINGET_VERSION == <<1, 12, 0>>

\* The digit runs that occur in the version texts.
Numerals == {"0", "1", "2", "9", "11", "12", "13"}

\* int(x)
NumVal(t) ==
    CASE t = "0" -> 0 [] t = "1" -> 1 [] t = "2" -> 2 [] t = "9" -> 9
      [] t = "11" -> 11 [] t = "12" -> 12 [] t = "13" -> 13

\* str(x)
NumStr(n) == CHOOSE t \in Numerals : NumVal(t) = n

\* _parse_version: re.search(r"(\d+)\.(\d+)\.(\d+)", text), the leftmost
\* match converted to a tuple of ints; <<>> is None.
ParseVersion(text) ==
    LET hits == {i \in 1..(Len(text) - 4) :
                    /\ text[i] \in Numerals
                    /\ text[i + 1] = "."
                    /\ text[i + 2] \in Numerals
                    /\ text[i + 3] = "."
                    /\ text[i + 4] \in Numerals}
    IN  IF hits = {} THEN <<>>
        ELSE LET i == CHOOSE h \in hits : \A g \in hits : h <= g
             IN  <<NumVal(text[i]), NumVal(text[i + 2]), NumVal(text[i + 4])>>

\* ".".join(str(x) for x in ver_tuple)
VersionString(vt) == <<NumStr(vt[1]), ".", NumStr(vt[2]), ".", NumStr(vt[3])>>

\* Mutant of TupleLess: only the minor and patch components are compared.
TupleLessIgnoringMajor(a, b) ==
    \/ a[2] < b[2]
    \/ a[2] = b[2] /\ a[3] < b[3]

\* Mutant of TupleLess: smaller in some component.
TupleLessAnyComponent(a, b) == \E k \in 1..3 : a[k] < b[k]

\* Python's "<" on two tuples of three ints.
TupleLess(a, b) ==
    \/ a[1] < b[1]
    \/ a[1] = b[1] /\ a[2] < b[2]
    \/ a[1] = b[1] /\ a[2] = b[2] /\ a[3] < b[3]

\* What _run_silent gives for one diagnostic command: a CompletedProcess, or
\* the exception of subprocess.run (TimeoutExpired, OSError).
Ran(rc, out, err) == [launch |-> "ran", rc |-> rc, stdout |-> out, stderr |-> err]

TimedOut == [launch |-> "timeout", rc |-> 0, stdout |-> <<>>, stderr |-> <<>>]

NotLaunched == [launch |-> "oserror", rc |-> 0, stdout |-> <<>>, stderr |-> <<>>]

\* Mutant of GetWingetState: a command that did not run counts as a tool of
\* unknown version.
GetWingetStateLenient(cmd) ==
    IF cmd.launch # "ran" THEN [state |-> "ok", ver |-> <<>>]
    ELSE IF cmd.rc # 0 THEN [state |-> "missing", ver |-> <<>>]
    ELSE LET txt == Strip(cmd.stdout \o cmd.stderr)
             ver_tuple == ParseVersion(txt)
             ver_str == IF ver_tuple # <<>> THEN VersionString(ver_tuple) ELSE txt
         IN  IF ver_tuple = <<>> THEN [state |-> "ok", ver |-> ver_str]
             ELSE IF TupleLess(ver_tuple, MIN_WINGET_VERSION)
             THEN [state |-> "outdated", ver |-> ver_str]
             ELSE [state |-> "ok", ver |-> ver_str]

\* get_winget_state
GetWingetState(cmd) ==
    IF cmd.launch # "ran" THEN [state |-> "missing", ver |-> <<>>]
    ELSE IF cmd.rc # 0 THEN [state |-> "missing", ver |-> <<>>]
    ELSE LET txt == Strip(cmd.stdout \o cmd.stderr)
             ver_tuple == ParseVersion(txt)
             ver_str == IF ver_tuple # <<>> THEN VersionString(ver_tuple) ELSE txt
         IN  IF ver_tuple = <<>> THEN [state |-> "ok", ver |-> ver_str]
             ELSE IF TupleLess(ver_tuple, MIN_WINGET_VERSION)
             THEN [state |-> "outdated", ver |-> ver_str]
             ELSE [state |-> "ok", ver |-> ver_str]

\* get_appinstaller_version
GetAppInstallerVersion(cmd) ==
    IF cmd.launch # "ran" THEN <<>>
    ELSE IF cmd.rc # 0 THEN <<>>
    ELSE Strip(cmd.stdout)

\* "ok" in (result.stdout or "")
ContainsOk(out) == \E i \in 1..Len(out) : out[i] = "ok"

RECURSIVE IsPowershellAvailable(_)
\* is_powershell_available; cmds holds what "powershell" and "pwsh" give.
IsPowershellAvailable(cmds) ==
    IF cmds = <<>> THEN FALSE
    ELSE IF Head(cmds).launch = "ran" /\ Head(cmds).rc = 0
            /\ ContainsOk(Head(cmds).stdout)
    THEN TRUE
    ELSE IsPowershellAvailable(Tail(cmds))

\* The texts "winget --version" can print.
WingetTexts ==
    {<<"v", a, ".", b, ".", c>> :
        a \in {"0", "1", "2"}, b \in {"0", "9", "11", "12", "13"},
        c \in {"0", "1", "9"}}
    \cup {<<>>, <<"x", " ">>, <<"1", ".", "12">>}

\* What "winget --version" can give.
WingetCommands ==
    {Ran(0, t, <<>>) : t \in WingetTexts}
    \cup {Ran(1, <<"v", "1", ".", "12", ".", "0">>, <<>>), TimedOut, NotLaunched}

\* What "powershell" and "pwsh" can give, in this order.
PowershellCommands ==
    {<<Ran(0, <<"ok">>, <<>>), Ran(0, <<"ok">>, <<>>)>>,
     <<NotLaunched, Ran(0, <<"ok">>, <<>>)>>,
     <<TimedOut, NotLaunched>>,
     <<Ran(1, <<>>, <<"x">>), TimedOut>>}

\* What the Get-AppxPackage command can give.
AppInstallerCommands ==
    {Ran(0, <<"1", ".", "2", " ">>, <<>>), Ran(0, <<" ">>, <<>>),
     Ran(1, <<>>, <<"x">>), TimedOut, NotLaunched}

\* ------------------------------------------------ the application's threads

\* PACKAGES keys of the two catalog entries.
PackageKeys == {"ka", "kb"}

\* What one pass of _check_dependencies_worker can find:
\* get_winget_state(), is_powershell_available(), get_appinstaller_version().
ProbeResults == {
    [state |-> "ok", ps_ok |-> TRUE, app_ok |-> TRUE],
    [state |-> "ok", ps_ok |-> TRUE, app_ok |-> FALSE],
    [state |-> "outdated", ps_ok |-> TRUE, app_ok |-> TRUE],
    [state |-> "missing", ps_ok |-> FALSE, app_ok |-> FALSE]
}

\* A background thread: its target, its position, the package keys it read.
Worker(kind, pc, ids) == [kind |-> kind, pc |-> pc, ids |-> ids]

\* threading.Thread(target=..., daemon=True).start()
Spawn(ws, w) == ws (+) SetToBag({w})

\* The thread's target returned.
Exit(ws, w) == ws (-) SetToBag({w})

Moved(ws, w, pc) == Spawn(Exit(ws, w), Worker(w.kind, pc, w.ids))

\* The callbacks that start a thread when they run.
SpawningCallbacks == {"upgrade.re_enable", "fix.on_success"}

\* A worker posts at most two callbacks in one step.
QueueHasRoom == Len(afterQueue) + 2 <= MaxQueue

ThreadsAliveOrPending ==
    BagCardinality(workers)
    + Cardinality({i \in 1..Len(afterQueue) : afterQueue[i].fn \in SpawningCallbacks})

\* ------------------------------------- the upgrade-all summary and finish()

up_begin == "UPGRADE_SUMMARY_BEGIN"

up_end == "UPGRADE_SUMMARY_END"

up_none == "UPGRADE_NONE"

up_updated == "UPDATED_APP: "

up_not_updated == "NOT_UPDATED_APP: "

\* The stdout lines (stderr is merged into stdout) the backend can write in
\* upgrade mode, after rstrip("\r\n"); <<>> is an empty line.
UpgradeLines == {
    <<up_begin>>,
    <<up_end>>,
    <<up_none>>,
    <<up_updated, "a", " ", "|", "b">>,
    <<up_not_updated, "b">>,
    <<>>
}

\* (parts + ["", "", "", ""])[:4] of [p.strip() for p in payload.split("|")]
ParseRecord(payload) ==
    SubSeq(StripAll(Split(payload, "|")) \o << <<>>, <<>>, <<>>, <<>> >>, 1, 4)

\* The parser's state before the first line.
NoSummary ==
    [inside |-> FALSE, had_none |-> FALSE, updated |-> <<>>,
     not_updated |-> <<>>]

\* Mutant of SummaryStep: records count outside the block too.
SummaryStepAnywhere(sm, line) ==
    IF line = <<up_begin>> THEN [sm EXCEPT !.inside = TRUE]
    ELSE IF line = <<up_end>> THEN [sm EXCEPT !.inside = FALSE]
    ELSE IF line = <<up_none>> THEN [sm EXCEPT !.had_none = sm.inside]
    ELSE IF line # <<>> /\ Head(line) = up_updated
    THEN [sm EXCEPT !.updated = Append(@, ParseRecord(Tail(line)))]
    ELSE IF line # <<>> /\ Head(line) = up_not_updated
    THEN [sm EXCEPT !.not_updated = Append(@, ParseRecord(Tail(line)))]
    ELSE sm

\* Mutant of SummaryStep: UPGRADE_NONE inside the block is not noted.
SummaryStepNoNone(sm, line) ==
    IF line = <<up_begin>> THEN [sm EXCEPT !.inside = TRUE]
    ELSE IF line = <<up_end>> THEN [sm EXCEPT !.inside = FALSE]
    ELSE IF ~sm.inside THEN sm
    ELSE IF line # <<>> /\ Head(line) = up_updated
    THEN [sm EXCEPT !.updated = Append(@, ParseRecord(Tail(line)))]
    ELSE IF line # <<>> /\ Head(line) = up_not_updated
    THEN [sm EXCEPT !.not_updated = Append(@, ParseRecord(Tail(line)))]
    ELSE sm

\* One iteration of "for line in stdout_lines" of the summary parser.
SummaryStep(sm, line) ==
    IF line = <<up_begin>> THEN [sm EXCEPT !.inside = TRUE]
    ELSE IF line = <<up_end>> THEN [sm EXCEPT !.inside = FALSE]
    ELSE IF ~sm.inside THEN sm
    ELSE IF line = <<up_none>> THEN [sm EXCEPT !.had_none = TRUE]
    ELSE IF line # <<>> /\ Head(line) = up_updated
    THEN [sm EXCEPT !.updated = Append(@, ParseRecord(Tail(line)))]
    ELSE IF line # <<>> /\ Head(line) = up_not_updated
    THEN [sm EXCEPT !.not_updated = Append(@, ParseRecord(Tail(line)))]
    ELSE sm

RECURSIVE ParseSummaryFrom(_, _)
ParseSummaryFrom(sm, ls) ==
    IF ls = <<>> THEN sm
    ELSE ParseSummaryFrom(SummaryStep(sm, Head(ls)), Tail(ls))

\* The summary parser of the upgrade-all worker.
ParseSummary(ls) == ParseSummaryFrom(NoSummary, ls)

\* What finish() has captured: the parsed lists, the none-flag and rc.
Captured(sm, rc) ==
    [updated |-> sm.updated, not_updated |-> sm.not_updated,
     had_none |-> sm.had_none, rc |-> rc]

\* Mutant of UpgradeFinishStatus: a non-zero exit code hides the counts.
UpgradeFinishStatusExitFirst(c) ==
    LET total_updated == Len(c.updated)
        total == Len(c.updated) + Len(c.not_updated)
    IN  IF c.had_none /\ total = 0
        THEN Cb("status", "Fertig - keine aktualisierbaren Programme gefunden.",
                <<>>, <<>>, 0)
        ELSE IF c.rc # 0
        THEN Cb("status", "Fertig (Warnung) ExitCode {rc} (nicht alle Updates moeglich)",
                <<c.rc>>, <<>>, 0)
        ELSE IF total > 0
        THEN Cb("status", "Fertig (ok) ({total_updated}/{total}) Programme aktualisiert.",
                <<total_updated, total>>, <<>>, 0)
        ELSE Cb("status", "Fertig (ok) Programme wurden aktualisiert.",
                <<>>, <<>>, 0)

\* The status line finish() sets.
UpgradeFinishStatus(c) ==
    LET total_updated == Len(c.updated)
        total == Len(c.updated) + Len(c.not_updated)
    IN  IF c.had_none /\ total = 0
        THEN Cb("status", "Fertig - keine aktualisierbaren Programme gefunden.",
                <<>>, <<>>, 0)
        ELSE IF total > 0
        THEN Cb("status",
                IF c.rc = 0
                THEN "Fertig (ok) ({total_updated}/{total}) Programme aktualisiert."
                ELSE "Fertig (Warnung) ({total_updated}/{total}) Programme aktualisiert.",
                <<total_updated, total>>, <<>>, 0)
        ELSE IF c.rc = 0
        THEN Cb("status", "Fertig (ok) Programme wurden aktualisiert.",
                <<>>, <<>>, 0)
        ELSE Cb("status", "Fertig (Warnung) ExitCode {rc} (nicht alle Updates moeglich)",
                <<c.rc>>, <<>>, 0)

\* finish() ends with messagebox.showinfo exactly when a record was parsed.
UpgradeFinishShowsInfo(c) == Len(c.updated) + Len(c.not_updated) > 0

\* ------------------------------------------------------- the Tk main loop

\* What the posted callback cb does to the progress bar and the status line.
RunCallbackDisplay(cb) ==
    /\ progress' = IF cb.fn = "progress.set" THEN cb.nums
                   ELSE IF cb.fn \in {"upgrade.finish", "fix.on_success",
                                      "fix.on_error"}
                   THEN Frac(1, 1)
                   ELSE progress
    /\ status' =
          IF cb.fn \in {"status", "upgrade.status"} THEN cb
          ELSE IF cb.fn = "upgrade.finish" THEN UpgradeFinishStatus(cb.name)
          ELSE IF cb.fn = "_finish_success"
          THEN FinishSuccessStatus(cb.nums[1], cb.nums[2], cb.nums[3])
          ELSE IF cb.fn = "_finish_error"
          THEN Cb("status", "Fehler bei der Installation.", <<>>, <<>>, 0)
          ELSE IF cb.fn = "fix.on_success"
          THEN Cb("status", "Winget Installation / Aktualisierung beendet.",
                  <<>>, <<>>, 0)
          ELSE IF cb.fn = "fix.on_error"
          THEN Cb("status", "Fehler beim Winget / App Installer Setup.",
                  <<>>, <<>>, 0)
          ELSE status

\* What the posted callback cb does to the busy flag, the buttons and the
\* threads: _finish_success, _finish_error, the re_enable of the upgrade-all
\* worker, on_success and re_enable of the setup worker, and the two button
\* updates of _check_dependencies_worker.
RunCallbackControl(cb) ==
    /\ installing' =
          IF cb.fn \in {"_finish_success", "_finish_error", "upgrade.re_enable"}
          THEN FALSE
          ELSE installing
    /\ btn_install' =
          IF cb.fn \in {"_finish_success", "_finish_error", "upgrade.re_enable",
                        "fix.re_enable"}
          THEN TRUE
          ELSE btn_install
    /\ btn_fix' =
          IF cb.fn = "fix.re_enable" THEN TRUE
          ELSE IF cb.fn = "_set_fix_button_state" THEN cb.nums[1] = 1
          ELSE btn_fix
    /\ btn_upgrade' =
          IF cb.fn = "_set_upgrade_all_state" THEN cb.nums[1] = 1
          ELSE btn_upgrade
    /\ workers' =
          IF cb.fn \in SpawningCallbacks
          THEN Spawn(workers, Worker("deps", "probe", {}))
          ELSE workers

\* The main loop runs the oldest posted callback.
MainloopRun ==
    /\ afterQueue # <<>>
    /\ RunCallbackControl(Head(afterQueue))
    /\ afterQueue' = Tail(afterQueue)
    /\ UNCHANGED <<histVars, setupVars, depStatus, pipeVars, runVars, script_exists, selected,
                   modal>>

\* The callbacks of one pass of _check_dependencies_worker that set a button.
DepsCallbacks(r) ==
    << Cb("_set_fix_button_state", "",
          <<IF r.state # "ok" \/ ~r.app_ok THEN 1 ELSE 0>>, <<>>, 0),
       Cb("_set_upgrade_all_state", "",
          <<IF r.state = "ok" THEN 1 ELSE 0>>, <<>>, 0) >>

\* _check_dependencies_worker: the three probes, then the UI updates.
DepsWorkerRun(r) ==
    /\ QueueHasRoom
    /\ BagIn(Worker("deps", "probe", {}), workers)
    /\ workers' = Exit(workers, Worker("deps", "probe", {}))
    /\ afterQueue' = PostAll(afterQueue, DepsCallbacks(r))
    /\ UNCHANGED <<histVars, setupVars, depVars, pipeVars, runVars, script_exists, uiLog, progress, status, installing,
                   btn_install, btn_fix, btn_upgrade, selected, modal>>

\* ------------------------------ _check_dependencies_worker, step by step

\* The locals of _check_dependencies_worker; the launch fields keep how each
\* diagnostic command went.
NoLocals ==
    [winget_launch |-> "unset", state |-> "None", ver |-> <<>>,
     ps_launch |-> <<>>, ps_ok |-> FALSE,
     app_launch |-> "unset", app_ver |-> <<>>]

\* The deps worker at position pc with locals l.
DepsAt(pc, l) == Worker("deps", pc, {l})

RECURSIVE Launches(_)
Launches(cmds) ==
    IF cmds = <<>> THEN <<>> ELSE <<Head(cmds).launch>> \o Launches(Tail(cmds))

depsFrame ==
    <<histVars, setupVars, pipeVars, runVars, script_exists, uiLog, progress, status, installing,
      btn_install, btn_fix, btn_upgrade, selected, modal, dep_labels>>

\* state, ver = get_winget_state()
DepsProbeWinget(cmd) ==
    /\ BagIn(Worker("deps", "probe", {}), workers)
    /\ LET r == GetWingetState(cmd)
           l == [NoLocals EXCEPT !.winget_launch = cmd.launch,
                                 !.state = r.state, !.ver = r.ver]
       IN  workers' = Spawn(Exit(workers, Worker("deps", "probe", {})),
                            DepsAt("store_state", l))
    /\ UNCHANGED <<depsFrame, depStatus, afterQueue>>

\* self._winget_state = state
DepsStoreState ==
    \E w \in BagToSet(workers) :
        /\ w.kind = "deps" /\ w.pc = "store_state"
        /\ winget_state' = (CHOOSE l \in w.ids : TRUE).state
        /\ workers' = Moved(workers, w, "store_version")
        /\ UNCHANGED <<depsFrame, winget_version, appinstaller_version,
                       afterQueue>>

\* self._winget_version = ver
DepsStoreVersion ==
    \E w \in BagToSet(workers) :
        /\ w.kind = "deps" /\ w.pc = "store_version"
        /\ winget_version' = (CHOOSE l \in w.ids : TRUE).ver
        /\ workers' = Moved(workers, w, "powershell")
        /\ UNCHANGED <<depsFrame, winget_state, appinstaller_version,
                       afterQueue>>

\* ps_ok = is_powershell_available()
DepsProbePowershell(cmds) ==
    \E w \in BagToSet(workers) :
        /\ w.kind = "deps" /\ w.pc = "powershell"
        /\ LET l == CHOOSE x \in w.ids : TRUE
           IN  workers' = Spawn(Exit(workers, w),
                   DepsAt("appinstaller",
                          [l EXCEPT !.ps_launch = Launches(cmds),
                                    !.ps_ok = IsPowershellAvailable(cmds)]))
        /\ UNCHANGED <<depsFrame, depStatus, afterQueue>>

\* app_ver = get_appinstaller_version()
DepsProbeAppInstaller(cmd) ==
    \E w \in BagToSet(workers) :
        /\ w.kind = "deps" /\ w.pc = "appinstaller"
        /\ LET l == CHOOSE x \in w.ids : TRUE
           IN  workers' = Spawn(Exit(workers, w),
                   DepsAt("store_app",
                          [l EXCEPT !.app_launch = cmd.launch,
                                    !.app_ver = GetAppInstallerVersion(cmd)]))
        /\ UNCHANGED <<depsFrame, depStatus, afterQueue>>

\* self._appinstaller_version = app_ver
DepsStoreAppVersion ==
    \E w \in BagToSet(workers) :
        /\ w.kind = "deps" /\ w.pc = "store_app"
        /\ appinstaller_version' = (CHOOSE l \in w.ids : TRUE).app_ver
        /\ workers' = Moved(workers, w, "publish")
        /\ UNCHANGED <<depsFrame, winget_state, winget_version, afterQueue>>

\* The five callbacks of one pass, in the order they are posted.
DepsPosts(l) ==
    << Cb("_update_winget_label", l.state, <<>>, l.ver, 0),
       Cb("_set_dep_state", "powershell", <<IF l.ps_ok THEN 1 ELSE 0>>, <<>>, 0),
       Cb("_set_dep_state", "desktop_app_installer",
          <<IF l.app_ver # <<>> THEN 1 ELSE 0>>, <<>>, 0) >>
    \o DepsCallbacks([state |-> l.state, ps_ok |-> l.ps_ok,
                      app_ok |-> l.app_ver # <<>>])

\* The UI updates of _check_dependencies_worker; the thread ends.
DepsPublish ==
    \E w \in BagToSet(workers) :
        /\ w.kind = "deps" /\ w.pc = "publish"
        /\ afterQueue' = PostAll(afterQueue, DepsPosts(CHOOSE l \in w.ids : TRUE))
        /\ workers' = Exit(workers, w)
        /\ UNCHANGED <<depsFrame, depStatus>>

\* _update_winget_label(state, version)
WingetLabel(state, version) ==
    Label(IF state = "ok" THEN "ok" ELSE "fail",
          IF state = "ok" THEN "Winget verfuegbar"
          ELSE IF state = "outdated" THEN "Winget veraltet"
          ELSE "Winget nicht verfuegbar",
          version)

\* _set_dep_state(dep, state): the App Installer label shows the stored
\* version, read when the callback runs.
DepStateLabel(dep, ui) ==
    Label(ui, DepLabelText(dep),
          IF dep = "desktop_app_installer" THEN appinstaller_version ELSE <<>>)

\* What the posted callback cb does to the dependency labels.
RunCallbackLabels(cb) ==
    dep_labels' =
        IF cb.fn = "_update_winget_label"
        THEN [dep_labels EXCEPT !["winget"] = WingetLabel(cb.text, cb.name)]
        ELSE IF cb.fn = "_set_dep_state"
        THEN [dep_labels EXCEPT
                 ![cb.text] = DepStateLabel(cb.text,
                                  IF cb.nums[1] = 1 THEN "ok" ELSE "fail")]
        ELSE IF cb.fn = "fix.on_error"
        THEN [dep_labels EXCEPT
                 !["winget"] = DepStateLabel("winget", "fail"),
                 !["desktop_app_installer"] =
                     DepStateLabel("desktop_app_installer", "fail")]
        ELSE dep_labels

\* ------------------------------------------------------------ install flow

\* Mutant of InstallBusy: the busy flag is not consulted.
InstallBusyIgnored == FALSE

\* _on_install_clicked: "if self._installing: return".
InstallBusy == installing

\* _on_install_clicked
OnInstallClicked ==
    IF InstallBusy \/ selected = {}
    THEN UNCHANGED <<installing, btn_install, workers, accepted>>
    ELSE /\ installing' = TRUE
         /\ btn_install' = FALSE
         /\ workers' = Spawn(workers, Worker("install", "start", {}))
         /\ accepted' = selected

\* A click on the enabled install button.
ClickInstall ==
    /\ modal = "none"
    /\ btn_install
    /\ ThreadsAliveOrPending < MaxThreads
    /\ OnInstallClicked
    /\ UNCHANGED <<setupVars, depVars, pipeVars, runVars, script_exists, afterQueue, uiLog, progress, status,
                   btn_fix, btn_upgrade, selected, modal>>

\* _on_key_press: Return / KP_Enter calls _on_install_clicked.
KeyEnter ==
    /\ modal = "none"
    /\ ThreadsAliveOrPending < MaxThreads
    /\ OnInstallClicked
    /\ UNCHANGED <<setupVars, depVars, pipeVars, runVars, script_exists, afterQueue, uiLog, progress, status,
                   btn_fix, btn_upgrade, selected, modal>>

\* PackageRow._on_click, and _on_key_press for Ctrl+A / Ctrl+D.
ChangeSelection(sel) ==
    /\ modal = "none"
    /\ selected' = sel
    /\ UNCHANGED <<histVars, setupVars, depVars, pipeVars, runVars, script_exists, afterQueue, uiLog, progress, status,
                   installing, btn_install, btn_fix, btn_upgrade, workers,
                   modal>>

\* The selections one user action can lead to.
NextSelections ==
    {PackageKeys, {}}
    \cup {selected \cup {k} : k \in PackageKeys}
    \cup {selected \ {k} : k \in PackageKeys}

\* _install_worker reads the selection; an empty one ends the run at once.
InstallThreadStart ==
    /\ QueueHasRoom
    /\ BagIn(Worker("install", "start", {}), workers)
    /\ IF selected = {}
       THEN /\ workers' = Exit(workers, Worker("install", "start", {}))
            /\ afterQueue' = Post(afterQueue,
                   Cb("_finish_success", "", <<0, 0, 0>>, <<>>, 0))
       ELSE /\ workers' = Spawn(Exit(workers, Worker("install", "start", {})),
                                Worker("install", "child", selected))
            /\ afterQueue' = afterQueue
    /\ UNCHANGED <<histVars, setupVars, depVars, pipeVars, runVars, script_exists, uiLog, progress, status, installing,
                   btn_install, btn_fix, btn_upgrade, selected, modal>>

\* _install_worker: run_winget_ps_install returned or raised.
InstallThreadEnd(raised) ==
    \E w \in BagToSet(workers) :
        /\ QueueHasRoom
        /\ w.kind = "install"
        /\ w.pc = "child"
        /\ workers' = Exit(workers, w)
        /\ afterQueue' =
              IF raised \/ ~script_exists
              THEN Post(afterQueue, Cb("_finish_error", "", <<>>, <<>>, 0))
              ELSE Post(afterQueue,
                        Cb("_finish_success", "", <<>>, <<>>, 0))
        /\ UNCHANGED <<histVars, setupVars, depVars, pipeVars, runVars, script_exists, uiLog, progress, status,
                       installing, btn_install, btn_fix, btn_upgrade,
                       selected, modal>>

\* ------------------------------------------------------------ upgrade-all flow

\* _on_upgrade_all up to messagebox.askyesno.
OnUpgradeAll ==
    /\ modal = "none"
    /\ btn_upgrade
    /\ ThreadsAliveOrPending < MaxThreads
    /\ modal' = IF installing THEN "none" ELSE "askyesno"
    /\ UNCHANGED <<histVars, setupVars, depVars, pipeVars, runVars, script_exists, afterQueue, uiLog, progress, status,
                   installing, btn_install, btn_fix, btn_upgrade, selected,
                   workers>>

\* _on_upgrade_all after the user answered the question.
AnswerUpgradeAll(yes) ==
    /\ modal = "askyesno"
    /\ modal' = "none"
    /\ IF yes
       THEN /\ installing' = TRUE
            /\ btn_install' = FALSE
            /\ btn_fix' = FALSE
            /\ btn_upgrade' = FALSE
            /\ workers' = Spawn(workers, Worker("upgrade", "start", {}))
       ELSE UNCHANGED <<installing, btn_install, btn_fix, btn_upgrade, workers>>
    /\ UNCHANGED <<histVars, setupVars, depVars, pipeVars, runVars, script_exists, afterQueue, uiLog, progress, status,
                   selected>>

\* worker of _on_upgrade_all: subprocess.Popen starts the child or raises.
UpgradeThreadStart(launched) ==
    /\ QueueHasRoom
    /\ BagIn(Worker("upgrade", "start", {}), workers)
    /\ IF launched
       THEN /\ workers' = Moved(workers, Worker("upgrade", "start", {}), "child")
            /\ afterQueue' = afterQueue
       ELSE /\ workers' = Exit(workers, Worker("upgrade", "start", {}))
            /\ afterQueue' = Post(afterQueue,
                   Cb("upgrade.re_enable", "", <<>>, <<>>, 0))
    /\ UNCHANGED <<histVars, setupVars, depVars, pipeVars, runVars, script_exists, uiLog, progress, status, installing,
                   btn_install, btn_fix, btn_upgrade, selected, modal>>

\* worker of _on_upgrade_all: the stream closed, the summary was parsed.
UpgradeThreadEnd ==
    /\ QueueHasRoom
    /\ BagIn(Worker("upgrade", "child", {}), workers)
    /\ workers' = Exit(workers, Worker("upgrade", "child", {}))
    /\ afterQueue' = Post(afterQueue, Cb("upgrade.re_enable", "", <<>>, <<>>, 0))
    /\ UNCHANGED <<histVars, setupVars, depVars, pipeVars, runVars, script_exists, uiLog, progress, status, installing,
                   btn_install, btn_fix, btn_upgrade, selected, modal>>

\* ------------------------------------------------------------ setup / repair

\* _on_fix_winget
OnFixWinget ==
    /\ modal = "none"
    /\ btn_fix
    /\ ThreadsAliveOrPending < MaxThreads
    /\ IF installing \/ ~script_exists
       THEN UNCHANGED <<btn_fix, btn_install, workers>>
       ELSE /\ btn_fix' = FALSE
            /\ btn_install' = FALSE
            /\ workers' = Spawn(workers, Worker("setup", "start", {}))
    /\ UNCHANGED <<histVars, setupVars, depVars, pipeVars, runVars, script_exists, afterQueue, uiLog, progress, status,
                   installing, btn_upgrade, selected, modal>>

\* worker of _on_fix_winget up to the child of run_winget_ps_setup, which
\* raises when the script is gone or the child cannot be started.
SetupThreadStart(launched) ==
    /\ QueueHasRoom
    /\ BagIn(Worker("setup", "start", {}), workers)
    /\ IF launched
       THEN /\ workers' = Moved(workers, Worker("setup", "start", {}), "child")
            /\ afterQueue' = afterQueue
       ELSE /\ workers' = Exit(workers, Worker("setup", "start", {}))
            /\ afterQueue' = Post(afterQueue,
                   Cb("fix.re_enable", "", <<>>, <<>>, 0))
    /\ UNCHANGED <<histVars, setupVars, depVars, pipeVars, runVars, script_exists, uiLog, progress, status, installing,
                   btn_install, btn_fix, btn_upgrade, selected, modal>>

\* worker of _on_fix_winget: run_winget_ps_setup returned or raised.
SetupThreadEnd(rc) ==
    /\ QueueHasRoom
    /\ BagIn(Worker("setup", "child", {}), workers)
    /\ workers' = Exit(workers, Worker("setup", "child", {}))
    /\ afterQueue' = PostAll(afterQueue,
           (IF rc = 0 THEN <<Cb("fix.on_success", "", <<>>, <<>>, 0)>>
            ELSE <<>>)
           \o <<Cb("fix.re_enable", "", <<>>, <<>>, 0)>>)
    /\ UNCHANGED <<histVars, setupVars, depVars, pipeVars, runVars, script_exists, uiLog, progress, status, installing,
                   btn_install, btn_fix, btn_upgrade, selected, modal>>

\* ------------------------------------- run_winget_ps_setup, step by step

\* EXE_DIR / "winget-setup.log"
SetupLogPath == "winget-setup.log"

\* cmd of run_winget_ps_setup
SetupCmd ==
    <<"powershell.exe", "-NoLogo", "-NoProfile", "-ExecutionPolicy", "Bypass",
      "-File", "winget-installscript.ps1", "-SetupWinget">>

\* What the child can leave in stdout.
SetupStdoutTexts == {<<>>, <<" ">>, <<" ", "out", " ">>}

\* What the child can leave in stderr.
SetupStderrTexts == {<<>>, <<" ">>, <<" ", "err", " ">>}

\* What the open(log_path, "w") block writes.
SetupLog(rc, out, err) ==
    [path |-> SetupLogPath, command |-> SetupCmd, rc |-> rc,
     stdout |-> out, stderr |-> err]

\* Mutant of SetupMessage: stdout is preferred over stderr.
SetupMessageStdoutFirst(rc, out, err) ==
    LET stdout == Strip(out)
        stderr == Strip(err)
        msg == IF stdout # <<>> THEN stdout
               ELSE IF stderr # <<>> THEN stderr
               ELSE <<"Winget-Setup Fehlercode ", NumStr(rc)>>
    IN  msg \o <<"\n\nDetails siehe Log-Datei:\n", SetupLogPath>>

\* The message of the RuntimeError of run_winget_ps_setup.
SetupMessage(rc, out, err) ==
    LET stdout == Strip(out)
        stderr == Strip(err)
        msg == IF stderr # <<>> THEN stderr
               ELSE IF stdout # <<>> THEN stdout
               ELSE <<"Winget-Setup Fehlercode ", NumStr(rc)>>
    IN  msg \o <<"\n\nDetails siehe Log-Datei:\n", SetupLogPath>>

\* The callbacks the worker of _on_fix_winget posts when run_winget_ps_setup
\* has raised: on_error with the text of the exception, then re_enable.
SetupRaisedPosts(msg) ==
    << Cb("fix.on_error", "", <<>>, msg, 0),
       Cb("fix.re_enable", "", <<>>, <<>>, 0) >>

setupFrame ==
    <<histVars, depVars, pipeVars, app_ids, wpc, stream, installed,
      failed_ids_from_summary, done, delivered, outcome, script_exists, uiLog,
      progress, status, installing, btn_install, btn_fix, btn_upgrade,
      selected, modal>>

\* The worker of _on_fix_winget up to subprocess.run: the progress bump, the
\* check of the script file, the start of the child.
SetupCallStart(started) ==
    /\ BagIn(Worker("setup", "start", {}), workers)
    /\ setup_call.phase = "idle"
    /\ IF ~script_exists \/ ~started
       THEN /\ setup_call' =
                  [setup_call EXCEPT
                      !.phase = "raised",
                      !.exc = IF ~script_exists THEN "FileNotFoundError"
                              ELSE "OSError",
                      !.msg = IF ~script_exists
                              THEN <<"Winget-Installscript nicht gefunden: ",
                                     "winget-installscript.ps1">>
                              ELSE <<"OSError">>]
            /\ proc' = proc
            /\ workers' = Exit(workers, Worker("setup", "start", {}))
            /\ afterQueue' =
                  PostAll(Post(afterQueue,
                               Cb("progress.set", "", Frac(1, 4), <<>>, 0)),
                          SetupRaisedPosts(setup_call'.msg))
       ELSE /\ setup_call' = [setup_call EXCEPT !.phase = "child"]
            /\ proc' = "running"
            /\ workers' = Moved(workers, Worker("setup", "start", {}), "child")
            /\ afterQueue' =
                  Post(afterQueue, Cb("progress.set", "", Frac(1, 4), <<>>, 0))
    /\ UNCHANGED <<setupFrame, log_writes>>

\* subprocess.run returns: the child has exited, its output is captured.
SetupChildExit(rc, out, err) ==
    /\ setup_call.phase = "child"
    /\ setup_call' = [setup_call EXCEPT !.phase = "exited", !.rc = rc,
                                        !.stdout = out, !.stderr = err]
    /\ proc' = "exited"
    /\ UNCHANGED <<setupFrame, log_writes, workers, afterQueue>>

\* The try block around open(log_path, "w"): the log is written, or the
\* write fails and the exception is dropped.
SetupWriteLog(written) ==
    /\ setup_call.phase = "exited"
    /\ setup_call' = [setup_call EXCEPT !.phase = "logged"]
    /\ log_writes' =
          Append(log_writes,
                 [log |-> SetupLog(setup_call.rc, setup_call.stdout,
                                   setup_call.stderr),
                  written |-> written])
    /\ UNCHANGED <<setupFrame, proc, workers, afterQueue>>

\* The end of run_winget_ps_setup and of the worker: RuntimeError and on_error
\* when the exit code is not zero, on_success otherwise, re_enable always.
SetupCallEnd ==
    /\ setup_call.phase = "logged"
    /\ BagIn(Worker("setup", "child", {}), workers)
    /\ workers' = Exit(workers, Worker("setup", "child", {}))
    /\ IF setup_call.rc # 0
       THEN /\ setup_call' =
                  [setup_call EXCEPT
                      !.phase = "raised", !.exc = "RuntimeError",
                      !.msg = SetupMessage(setup_call.rc, setup_call.stdout,
                                           setup_call.stderr)]
            /\ afterQueue' = PostAll(afterQueue, SetupRaisedPosts(setup_call'.msg))
       ELSE /\ setup_call' = [setup_call EXCEPT !.phase = "returned"]
            /\ afterQueue' =
                  PostAll(afterQueue,
                          << Cb("fix.on_success", "", <<>>, <<>>, 0),
                             Cb("fix.re_enable", "", <<>>, <<>>, 0) >>)
    /\ UNCHANGED <<setupFrame, log_writes, proc>>

\* --------------------------------------------------- the application (Spec)

\* No call of run_winget_ps_setup yet.
NoSetupCall ==
    [phase |-> "idle", rc |-> 0, stdout |-> <<>>, stderr |-> <<>>,
     exc |-> "none", msg |-> <<>>]

\* No log file was written, run_winget_ps_setup is not running.
SetupIdle ==
    /\ log_writes = <<>>
    /\ setup_call = NoSetupCall

\* The dependency panel after __init__ and _build_dep_labels.
DepsIdle ==
    /\ winget_state = "None"
    /\ winget_version = <<>>
    /\ appinstaller_version = <<>>
    /\ dep_labels = [d \in DepKeys |-> Label("pending", DepLabelText(d), <<>>)]

\* No child process, no pipes.
PipesIdle ==
    /\ child_plan = <<>>
    /\ stdout_pipe = 0
    /\ stderr_pipe = 0

RunIdle ==
    /\ app_ids = <<>>
    /\ wpc = "idle"
    /\ stream = <<>>
    /\ installed = <<>>
    /\ failed_ids_from_summary = <<>>
    /\ done = 0
    /\ delivered = <<>>
    /\ outcome = NoOutcome
    /\ proc = "none"

\* WingetInstallerApp.__init__
Init ==
    /\ RunIdle
    /\ script_exists \in BOOLEAN
    /\ afterQueue = <<>>
    /\ uiLog = <<>>
    /\ progress = Frac(0, 1)
    /\ status = Cb("status", "Bereit", <<>>, <<>>, 0)
    /\ installing = FALSE
    /\ btn_install = TRUE
    /\ btn_fix = FALSE
    /\ btn_upgrade = FALSE
    /\ selected = {}
    /\ workers = SetToBag({Worker("deps", "probe", {})})
    /\ modal = "none"
    /\ PipesIdle
    /\ DepsIdle
    /\ SetupIdle
    /\ accepted = {}

Next ==
    \/ ClickInstall
    \/ KeyEnter
    \/ \E sel \in NextSelections : ChangeSelection(sel)
    \/ InstallThreadStart
    \/ \E raised \in BOOLEAN : InstallThreadEnd(raised)
    \/ OnUpgradeAll
    \/ \E yes \in BOOLEAN : AnswerUpgradeAll(yes)
    \/ \E launched \in BOOLEAN : UpgradeThreadStart(launched)
    \/ UpgradeThreadEnd
    \/ OnFixWinget
    \/ \E launched \in BOOLEAN : SetupThreadStart(launched)
    \/ \E rc \in {0, 1} : SetupThreadEnd(rc)
    \/ \E r \in ProbeResults : DepsWorkerRun(r)
    \/ MainloopRun /\ UNCHANGED <<uiLog, progress, status, dep_labels>>

Spec == Init /\ [][Next]_vars

\* ------------------------------------------------- one install run (SpecRun)

\* The state right after _on_install_clicked accepted a run.
InitRun ==
    /\ app_ids \in AppIdLists
    /\ script_exists \in BOOLEAN
    /\ wpc = "start"
    /\ stream = <<>>
    /\ installed = <<>>
    /\ failed_ids_from_summary = <<>>
    /\ done = 0
    /\ delivered = <<>>
    /\ outcome = NoOutcome
    /\ proc = "none"
    /\ afterQueue = <<>>
    /\ uiLog = <<>>
    /\ progress = Frac(0, 1)
    /\ status = Cb("status", "Installation wird vorbereitet", <<>>, <<>>, 0)
    /\ installing = TRUE
    /\ btn_install = FALSE
    /\ btn_fix = FALSE
    /\ btn_upgrade = FALSE
    /\ selected = {}
    /\ workers = EmptyBag
    /\ modal = "none"
    /\ PipesIdle
    /\ DepsIdle
    /\ SetupIdle
    /\ accepted = {}

\* The worker alone: what run_winget_ps_install reads, delivers and returns.
NextRun ==
    \/ InstallWorkerStart
    \/ RunInstallCall
    \/ \E line \in Lines : ReadLine(line)
    \/ \E rc \in ExitCodes, err \in StderrTexts : StreamClose(rc, err)
    \/ InstallWorkerReturned
    \/ InstallWorkerRaised

SpecRun == InitRun /\ [][NextRun]_vars

\* The install run on lines that carry several markers (SpecMarkers).
NextMarkers ==
    \/ InstallWorkerStart
    \/ RunInstallCall
    \/ \E line \in MarkerLines : ReadLine(line)
    \/ \E rc \in ExitCodes, err \in StderrTexts : StreamClose(rc, err)
    \/ InstallWorkerReturned
    \/ InstallWorkerRaised

SpecMarkers == InitRun /\ [][NextMarkers]_vars

\* The worker together with the Tk main loop that runs what it posts.
NextRunUi ==
    \/ InstallWorkerStart
    \/ RunInstallCall
    \/ \E line \in UiLines : ReadLine(line)
    \/ \E rc \in ExitCodes, err \in StderrTexts : StreamClose(rc, err)
    \/ InstallWorkerReturned
    \/ InstallWorkerRaised
    \/ /\ MainloopRun
       /\ RunCallbackDisplay(Head(afterQueue))
       /\ uiLog' = Append(uiLog, Head(afterQueue))
       /\ UNCHANGED dep_labels

SpecRunUi == InitRun /\ [][NextRunUi]_vars

\* ------------------------------------ one dependency check (SpecProbe)

\* The check that __init__ starts, alone with the Tk main loop.
NextProbe ==
    \/ \E cmd \in WingetCommands : DepsProbeWinget(cmd)
    \/ DepsStoreState
    \/ DepsStoreVersion
    \/ \E cmds \in PowershellCommands : DepsProbePowershell(cmds)
    \/ \E cmd \in AppInstallerCommands : DepsProbeAppInstaller(cmd)
    \/ DepsStoreAppVersion
    \/ DepsPublish
    \/ /\ MainloopRun
       /\ RunCallbackLabels(Head(afterQueue))
       /\ uiLog' = Append(uiLog, Head(afterQueue))
       /\ UNCHANGED <<progress, status>>

SpecProbe == Init /\ [][NextProbe]_vars

\* ------------------------ repeated dependency checks (SpecDeps)

\* What the three diagnostic commands give in the repeated checks.
DepsWingetCommands ==
    {Ran(0, <<"v", "1", ".", "12", ".", "0">>, <<>>),
     Ran(0, <<"v", "1", ".", "11", ".", "9">>, <<>>),
     TimedOut}

DepsPowershellCommands == {<<Ran(0, <<"ok">>, <<>>), Ran(0, <<"ok">>, <<>>)>>}

DepsAppInstallerCommands == {Ran(0, <<"1", ".", "2", " ">>, <<>>), TimedOut}

\* The check that __init__ starts and the checks that on_success of
\* _on_fix_winget and re_enable of _on_upgrade_all start again.
NextDeps ==
    \/ \E cmd \in DepsWingetCommands : DepsProbeWinget(cmd)
    \/ DepsStoreState
    \/ DepsStoreVersion
    \/ \E cmds \in DepsPowershellCommands : DepsProbePowershell(cmds)
    \/ \E cmd \in DepsAppInstallerCommands : DepsProbeAppInstaller(cmd)
    \/ DepsStoreAppVersion
    \/ DepsPublish
    \/ OnFixWinget
    \/ \E launched \in BOOLEAN : SetupThreadStart(launched)
    \/ \E rc \in {0, 1} : SetupThreadEnd(rc)
    \/ OnUpgradeAll
    \/ \E yes \in BOOLEAN : AnswerUpgradeAll(yes)
    \/ \E launched \in BOOLEAN : UpgradeThreadStart(launched)
    \/ UpgradeThreadEnd
    \/ /\ MainloopRun
       /\ RunCallbackLabels(Head(afterQueue))
       /\ UNCHANGED <<uiLog, progress, status>>

SpecDeps == Init /\ [][NextDeps]_vars

\* ------------------------------------------ one setup run (SpecSetup)

\* The state right after _on_fix_winget accepted a run: an earlier check had
\* found winget 1.11.9 and no App Installer.  The dependency check that
\* on_success starts is not followed here.
InitSetup ==
    /\ RunIdle
    /\ script_exists \in BOOLEAN
    /\ afterQueue = <<>>
    /\ uiLog = <<>>
    /\ progress = Frac(0, 1)
    /\ status = Cb("status", "Winget / App Installer wird ueberprueft",
                   <<>>, <<>>, 0)
    /\ installing = FALSE
    /\ btn_install = FALSE
    /\ btn_fix = FALSE
    /\ btn_upgrade = FALSE
    /\ selected = {}
    /\ workers = SetToBag({Worker("setup", "start", {})})
    /\ modal = "none"
    /\ PipesIdle
    /\ SetupIdle
    /\ accepted = {}
    /\ winget_state = "outdated"
    /\ winget_version = <<"1", ".", "11", ".", "9">>
    /\ appinstaller_version = <<>>
    /\ dep_labels =
          [d \in DepKeys |->
              IF d = "powershell" THEN Label("ok", DepLabelText(d), <<>>)
              ELSE Label("running", DepLabelText(d), <<>>)]

NextSetup ==
    \/ \E started \in BOOLEAN : SetupCallStart(started)
    \/ \E rc \in ExitCodes, out \in SetupStdoutTexts, err \in SetupStderrTexts :
          SetupChildExit(rc, out, err)
    \/ \E written \in BOOLEAN : SetupWriteLog(written)
    \/ SetupCallEnd
    \/ /\ MainloopRun
       /\ RunCallbackDisplay(Head(afterQueue))
       /\ RunCallbackLabels(Head(afterQueue))
       /\ uiLog' = Append(uiLog, Head(afterQueue))

SpecSetup == InitSetup /\ [][NextSetup]_vars

\* ------------------------------------ the upgrade-all worker (SpecUpgrade)

\* The state right after _on_upgrade_all started its worker.
InitUpgrade ==
    /\ app_ids = <<>>
    /\ script_exists \in BOOLEAN
    /\ wpc = "up_start"
    /\ stream = <<>>
    /\ installed = <<>>
    /\ failed_ids_from_summary = <<>>
    /\ done = 0
    /\ delivered = <<>>
    /\ outcome = NoOutcome
    /\ proc = "none"
    /\ afterQueue = <<>>
    /\ uiLog = <<>>
    /\ progress = Frac(0, 1)
    /\ status = Cb("status", "Aktualisiere Programme (winget)", <<>>, <<>>, 0)
    /\ installing = TRUE
    /\ btn_install = FALSE
    /\ btn_fix = FALSE
    /\ btn_upgrade = FALSE
    /\ selected = {}
    /\ workers = EmptyBag
    /\ modal = "none"
    /\ PipesIdle
    /\ DepsIdle
    /\ SetupIdle
    /\ accepted = {}

upgradeFrame ==
    <<histVars, setupVars, depVars, pipeVars, app_ids, script_exists, installed, failed_ids_from_summary,
      done, delivered, outcome, uiLog, progress, status, installing,
      btn_install, btn_fix, btn_upgrade, selected, workers, modal>>

\* worker: subprocess.Popen(powershell.exe ... -File script -UpgradeAll).  The
\* worker does not look for the script: powershell.exe starts either way.
\* When Popen itself raises, the except and finally branches post.
UpgradeLaunch(started) ==
    /\ wpc = "up_start"
    /\ IF started
       THEN /\ proc' = "running"
            /\ wpc' = "up_read"
            /\ afterQueue' = afterQueue
       ELSE /\ proc' = proc
            /\ wpc' = "finished"
            /\ afterQueue' = PostAll(afterQueue,
                   << Cb("upgrade.showerror", "Fehler beim Aktualisieren",
                         <<>>, <<>>, 0),
                      Cb("upgrade.re_enable", "", <<>>, <<>>, 0) >>)
    /\ UNCHANGED <<upgradeFrame, stream>>

\* One iteration of "for raw in proc.stdout": empty lines are skipped, the
\* others are kept and shown in the status line.
UpgradeReadLine(line) ==
    /\ wpc = "up_read"
    /\ Len(stream) < MaxLines
    /\ IF line = <<>>
       THEN UNCHANGED <<stream, afterQueue>>
       ELSE /\ stream' = Append(stream, line)
            /\ afterQueue' = Post(afterQueue,
                   Cb("upgrade.status", "", <<>>, line, Len(stream) + 1))
    /\ UNCHANGED <<upgradeFrame, wpc, proc>>

\* The stream closes: proc.wait(), the summary parser, after(0, finish) and,
\* in the finally branch, after(0, re_enable).
UpgradeStreamClose(rc) ==
    /\ wpc = "up_read"
    /\ proc' = "exited"
    /\ wpc' = "finished"
    /\ afterQueue' = PostAll(afterQueue,
           << Cb("upgrade.finish", "", <<>>,
                 Captured(ParseSummary(stream), rc), 0),
              Cb("upgrade.re_enable", "", <<>>, <<>>, 0) >>)
    /\ UNCHANGED <<upgradeFrame, stream>>

NextUpgrade ==
    \/ \E started \in BOOLEAN : UpgradeLaunch(started)
    \/ \E line \in UpgradeLines : UpgradeReadLine(line)
    \/ \E rc \in ExitCodes : UpgradeStreamClose(rc)
    \/ /\ MainloopRun
       /\ RunCallbackDisplay(Head(afterQueue))
       /\ uiLog' = Append(uiLog, Head(afterQueue))
       /\ UNCHANGED dep_labels

SpecUpgrade == InitUpgrade /\ [][NextUpgrade]_vars

\* ------------------------------------------- the child's pipes (SpecPipe)

RECURSIVE Plans(_)
\* The sequences of at most n writes, each to stdout or to stderr.
Plans(n) ==
    IF n = 0 THEN {<<>>}
    ELSE LET shorter == Plans(n - 1)
         IN  shorter \cup {Append(pl, fd) : pl \in shorter, fd \in {"stdout", "stderr"}}

\* run_winget_ps_install after subprocess.Popen(..., stdout=PIPE, stderr=PIPE):
\* the child runs, the parent enters "for line in proc.stdout".
InitPipe ==
    /\ app_ids = <<<<"a">>>>
    /\ script_exists = TRUE
    /\ wpc = "read"
    /\ stream = <<>>
    /\ installed = <<>>
    /\ failed_ids_from_summary = <<>>
    /\ done = 0
    /\ delivered = <<>>
    /\ outcome = NoOutcome
    /\ proc = "running"
    /\ afterQueue = <<>>
    /\ uiLog = <<>>
    /\ progress = Frac(0, 1)
    /\ status = Cb("status", "Installiere {total} Programme", <<1>>, <<>>, 0)
    /\ installing = TRUE
    /\ btn_install = FALSE
    /\ btn_fix = FALSE
    /\ btn_upgrade = FALSE
    /\ selected = {}
    /\ workers = EmptyBag
    /\ modal = "none"
    /\ DepsIdle
    /\ SetupIdle
    /\ accepted = {}
    /\ child_plan \in Plans(MaxWrites)
    /\ stdout_pipe = 0
    /\ stderr_pipe = 0

pipeFrame ==
    <<histVars, setupVars, depVars, appVars, app_ids, script_exists, stream, installed,
      failed_ids_from_summary, done, delivered, outcome, afterQueue, uiLog,
      progress, status, installing, btn_install>>

\* The child writes a chunk to stdout; the write blocks while the pipe is full.
ChildWriteStdout ==
    /\ proc = "running"
    /\ child_plan # <<>>
    /\ Head(child_plan) = "stdout"
    /\ stdout_pipe < PipeCap
    /\ stdout_pipe' = stdout_pipe + 1
    /\ child_plan' = Tail(child_plan)
    /\ UNCHANGED <<pipeFrame, wpc, proc, stderr_pipe>>

\* The child writes a chunk to stderr; the write blocks while the pipe is full.
ChildWriteStderr ==
    /\ proc = "running"
    /\ child_plan # <<>>
    /\ Head(child_plan) = "stderr"
    /\ stderr_pipe < PipeCap
    /\ stderr_pipe' = stderr_pipe + 1
    /\ child_plan' = Tail(child_plan)
    /\ UNCHANGED <<pipeFrame, wpc, proc, stdout_pipe>>

\* The child has written everything: it exits, which closes both pipes.
ChildExit ==
    /\ proc = "running"
    /\ child_plan = <<>>
    /\ proc' = "exited"
    /\ UNCHANGED <<pipeFrame, wpc, pipeVars>>

\* "for line in proc.stdout" gets a line.
ParentReadStdout ==
    /\ wpc = "read"
    /\ stdout_pipe > 0
    /\ stdout_pipe' = stdout_pipe - 1
    /\ UNCHANGED <<pipeFrame, wpc, proc, child_plan, stderr_pipe>>

\* "for line in proc.stdout" ends: the pipe is empty and closed.
ParentStdoutEof ==
    /\ wpc = "read"
    /\ stdout_pipe = 0
    /\ proc = "exited"
    /\ wpc' = "wait"
    /\ UNCHANGED <<pipeFrame, proc, pipeVars>>

\* rc = proc.wait()
ParentWait ==
    /\ wpc = "wait"
    /\ proc = "exited"
    /\ wpc' = "read_stderr"
    /\ UNCHANGED <<pipeFrame, proc, pipeVars>>

\* proc.stderr.read() takes what is in the pipe.
ParentReadStderr ==
    /\ wpc = "read_stderr"
    /\ stderr_pipe > 0
    /\ stderr_pipe' = 0
    /\ UNCHANGED <<pipeFrame, wpc, proc, child_plan, stdout_pipe>>

\* proc.stderr.read() returns at the end of the pipe; the reconciliation and
\* the return or raise follow.
ParentStderrEof ==
    /\ wpc = "read_stderr"
    /\ stderr_pipe = 0
    /\ proc = "exited"
    /\ wpc' = "reconcile"
    /\ UNCHANGED <<pipeFrame, proc, pipeVars>>

NextPipe ==
    \/ ChildWriteStdout
    \/ ChildWriteStderr
    \/ ChildExit
    \/ ParentReadStdout
    \/ ParentStdoutEof
    \/ ParentWait
    \/ ParentReadStderr
    \/ ParentStderrEof

\* Both processes are scheduled: a step that can be taken is taken.
SpecPipe == InitPipe /\ [][NextPipe]_vars /\ WF_vars(NextPipe)

\* ------------------- the end of install and upgrade-all runs (SpecBusy)

\* An install run or an upgrade-all run was accepted.
InitBusy == InitRun \/ InitUpgrade

\* The lines of the install runs that are followed to their end.
BusyLines == {<<re_ok, " ", "a">>, <<re_failed, "b">>}

\* The lines of the upgrade-all runs that are followed to their end.
BusyUpgradeLines == {<<up_updated, "a", " ", "|", "b">>, <<>>}

NextBusy ==
    \/ InstallWorkerStart
    \/ RunInstallCall
    \/ \E line \in BusyLines : ReadLine(line)
    \/ \E rc \in {0, 1} : StreamClose(rc, <<"winget: error">>)
    \/ InstallWorkerReturned
    \/ InstallWorkerRaised
    \/ \E started \in BOOLEAN : UpgradeLaunch(started)
    \/ \E line \in BusyUpgradeLines : UpgradeReadLine(line)
    \/ \E rc \in {0, 1} : UpgradeStreamClose(rc)
    \/ /\ MainloopRun
       /\ RunCallbackDisplay(Head(afterQueue))
       /\ uiLog' = Append(uiLog, Head(afterQueue))
       /\ UNCHANGED dep_labels

\* The worker thread is scheduled and the Tk main loop runs what was posted,
\* the user closing each message box: a step that can be taken is taken.
SpecBusy == InitBusy /\ [][NextBusy]_vars /\ WF_vars(NextBusy)

\* ==================================================================== claims

Range(f) == {f[i] : i \in DOMAIN f}

\* What each line of Lines means in the backend script's protocol: the marker
\* it carries and the ids it names.
Protocol(line) ==
    CASE line = <<re_start, " ", "a">> -> [kind |-> "start", ids |-> <<<<"a">>>>]
      [] line = <<re_start, " ", "b">> -> [kind |-> "start", ids |-> <<<<"b">>>>]
      [] line = <<re_ok, " ", "a">> -> [kind |-> "ok", ids |-> <<<<"a">>>>]
      [] line = <<re_ok, " ", "b", " ">> -> [kind |-> "ok", ids |-> <<<<"b">>>>]
      [] line = <<re_failed, " ", "a", ",", " ", "b", ",">> ->
             [kind |-> "failed", ids |-> <<<<"a">>, <<"b">>>>]
      [] line = <<re_failed, "b">> -> [kind |-> "failed", ids |-> <<<<"b">>>>]
      [] line = <<re_failed, " ", ",">> -> [kind |-> "failed", ids |-> <<>>]
      [] OTHER -> [kind |-> "none", ids |-> <<>>]

\* The positions of the stream's lines of one kind.
LinesOfKind(kind) == {i \in 1..Len(stream) : Protocol(stream[i]).kind = kind}

\* The ids marked Ok in the stream, in stream order.
RECURSIVE OkIdsOf(_)
OkIdsOf(ls) ==
    IF ls = <<>> THEN <<>>
    ELSE (IF Protocol(Head(ls)).kind = "ok" THEN Protocol(Head(ls)).ids ELSE <<>>)
         \o OkIdsOf(Tail(ls))

\* The id list of the stream's last FAILED_APPS line (<<>> when there is none).
LastFailedList ==
    IF LinesOfKind("failed") = {} THEN <<>>
    ELSE LET i == CHOOSE k \in LinesOfKind("failed") :
                      \A j \in LinesOfKind("failed") : j <= k
         IN  Protocol(stream[i]).ids

\* run_winget_ps_install has read the whole stream and returned or raised.
RunEnded == proc = "exited" /\ wpc \in {"returned", "raised", "finished"}

C3_SucceededFailedDisjoint ==
    (RunEnded /\ outcome.kind = "result")
        => Range(outcome.installed) \cap Range(outcome.failed) = {}

\* C4: a run that launched the child and ends with a non-zero exit code, an
\* empty ok-list and an empty failed-list raises the process failure; no
\* result has both lists empty and a non-zero exit code.
C4_EmptyEmptyNonZeroRaises ==
    /\ (RunEnded /\ outcome.rc # 0 /\ OkIdsOf(stream) = <<>>
            /\ LastFailedList = <<>>)
          => outcome.kind = "RuntimeError"
    /\ (proc # "none" /\ outcome.kind = "result" /\ outcome.rc # 0)
          => (outcome.installed # <<>> \/ outcome.failed # <<>>)

C4_Witness ==
    /\ RunEnded
    /\ outcome.kind = "RuntimeError"
    /\ outcome.rc = 2
    /\ Len(stream) >= 2
    /\ installed = <<>>
    /\ LinesOfKind("failed") # {}

\* C5 (as stated): a non-zero exit code with at least one Ok id or with a
\* non-empty FAILED_APPS list somewhere in the stream returns a result.
C5_PartialResultAnyFailedLine ==
    (RunEnded /\ outcome.rc # 0
        /\ (OkIdsOf(stream) # <<>>
            \/ \E i \in LinesOfKind("failed") : Protocol(stream[i]).ids # <<>>))
        => outcome.kind = "result"

\* C5 (amended): a non-zero exit code with at least one Ok id, or with a last
\* FAILED_APPS line that carries a non-empty list, returns a result, and the
\* worker hands it to _finish_success, not to _finish_error.
C5_PartialResultLastFailedLine ==
    (RunEnded /\ outcome.rc # 0
        /\ (OkIdsOf(stream) # <<>> \/ LastFailedList # <<>>))
        => /\ outcome.kind = "result"
           /\ (wpc = "finished" =>
                 afterQueue[Len(afterQueue)].fn = "_finish_success")

C5_Witness ==
    /\ wpc = "finished"
    /\ outcome.kind = "result"
    /\ outcome.rc = 1
    /\ outcome.installed = <<<<"a">>>>
    /\ outcome.failed = <<<<"b">>>>
    /\ afterQueue[Len(afterQueue)].fn = "_finish_success"

\* C6: when the last FAILED_APPS line carries a non-empty list L, the run
\* returns a result whose failed list is L, whatever the Ok events and the
\* exit code.
C6_FailedListIsLastFailedApps ==
    (RunEnded /\ LastFailedList # <<>>)
        => /\ outcome.kind = "result"
           /\ outcome.failed = LastFailedList

\* Two FAILED_APPS lines with different lists, an Ok event after the last of
\* them, exit code 0.
C6_Witness ==
    /\ RunEnded
    /\ outcome.rc = 0
    /\ outcome.failed = <<<<"a">>, <<"b">>>>
    /\ Cardinality(LinesOfKind("failed")) >= 2
    /\ \E i \in LinesOfKind("failed") : Protocol(stream[i]).ids = <<<<"b">>>>
    /\ \E i \in LinesOfKind("ok") : \A j \in LinesOfKind("failed") : j < i

\* Start{id} then Ok{id}, once for each requested id, and no FAILED_APPS line.
AllSucceededStream ==
    /\ LinesOfKind("failed") = {}
    /\ \A id \in Range(app_ids) :
          /\ Cardinality({i \in LinesOfKind("ok") :
                            Protocol(stream[i]).ids = <<id>>}) = 1
          /\ Cardinality({i \in LinesOfKind("start") :
                            Protocol(stream[i]).ids = <<id>>}) = 1
          /\ \A i \in LinesOfKind("start"), j \in LinesOfKind("ok") :
                (Protocol(stream[i]).ids = <<id>>
                    /\ Protocol(stream[j]).ids = <<id>>) => i < j
    /\ \A i \in LinesOfKind("ok") \cup LinesOfKind("start") :
          Protocol(stream[i]).ids[1] \in Range(app_ids)

\* C7: after Start{id}, Ok{id} once for each requested id, no FAILED_APPS line
\* and exit code 0, the succeeded list is the requested ids in the order of
\* their Ok markers and the failed list is empty.
C7_AllSucceededInStreamOrder ==
    (RunEnded /\ outcome.rc = 0 /\ app_ids # <<>> /\ AllSucceededStream)
        => /\ outcome.kind = "result"
           /\ outcome.installed = OkIdsOf(stream)
           /\ Range(outcome.installed) = Range(app_ids)
           /\ Len(outcome.installed) = Len(app_ids)
           /\ outcome.failed = <<>>

\* Requested [a, b]; the stream reports b first.
C7_Witness ==
    /\ RunEnded
    /\ outcome.rc = 0
    /\ app_ids = <<<<"a">>, <<"b">>>>
    /\ AllSucceededStream
    /\ outcome.installed = <<<<"b">>, <<"a">>>>

\* The events on_event received for stdout line i.
EventsOfLine(i) == SelectSeq(delivered, LAMBDA e : e.src = i)

\* C10: every stdout line produces exactly one raw line event carrying its
\* text; a Start or Ok line produces its marker event in addition.
C10_EveryLineForwardedRaw ==
    \A i \in 1..Len(stream) :
        LET evs == EventsOfLine(i)
            raw == SelectSeq(evs, LAMBDA e : e.ev.kind = "line")
            marker == SelectSeq(evs, LAMBDA e : e.ev.kind # "line")
            p == Protocol(stream[i])
        IN  /\ Len(raw) = 1
            /\ raw[1].ev.arg = stream[i]
            /\ IF p.kind \in {"start", "ok"}
               THEN /\ Len(marker) = 1
                    /\ marker[1].ev = Ev(p.kind, p.ids[1])
               ELSE marker = <<>>

\* A Start line, an Ok line, a FAILED_APPS line and a line without marker
\* have all been read.
C10_Witness ==
    /\ Len(stream) = 4
    /\ \A k \in {"start", "ok", "failed", "none"} : LinesOfKind(k) # {}
    /\ Len(delivered) = 6

\* C8: a run whose child writes a finite amount to stdout and stderr and
\* then exits reaches the end of run_winget_ps_install.  Where it fails, the
\* child still has writes to do (child_plan # <<>>) and waits for room in the
\* stderr pipe, while the parent waits for a stdout line: neither can step.
C8_RunAlwaysFinishes == <>(wpc = "reconcile")

\* The callbacks on_event marshalled to the main loop, those that ran first.
Marshalled == SelectSeq(uiLog \o afterQueue, LAMBDA cb : cb.src > 0)

\* The Start and Ok events on_event received.
MarkerEvents == SelectSeq(delivered, LAMBDA e : e.ev.kind # "line")

\* C9: on_event receives the events in the order of the stdout lines, the raw
\* line before its marker event, one raw event per line read and nothing
\* else; the main loop runs or holds, for each Start or Ok event in that
\* order, exactly its progress update followed by its status update.
C9_EventsInLineOrder ==
    /\ \A k \in 1..Len(delivered) : delivered[k].src \in 1..Len(stream)
    /\ \A k \in 1..(Len(delivered) - 1) :
          \/ delivered[k].src < delivered[k + 1].src
          \/ /\ delivered[k].src = delivered[k + 1].src
             /\ delivered[k].ev.kind = "line"
             /\ delivered[k + 1].ev.kind # "line"
    /\ \A i \in 1..Len(stream) :
          \E k \in 1..Len(delivered) :
              delivered[k] = [ev |-> Ev("line", stream[i]), src |-> i]
    /\ Len(Marshalled) = 2 * Len(MarkerEvents)
    /\ \A k \in 1..Len(MarkerEvents) :
          /\ Marshalled[2 * k - 1].fn = "progress.set"
          /\ Marshalled[2 * k - 1].src = MarkerEvents[k].src
          /\ Marshalled[2 * k].fn = "status"
          /\ Marshalled[2 * k].src = MarkerEvents[k].src

\* The run is over and the main loop has run every callback of three marker
\* lines and passed over a line without marker.
C9_Witness ==
    /\ wpc = "finished"
    /\ afterQueue = <<>>
    /\ Len(MarkerEvents) = 3
    /\ Len(delivered) = Len(stream) + 3
    /\ Len(stream) = 4

\* ------------------------------------------------------- claims on the app

\* The callbacks that complete an install or upgrade-all run.
CompletionHandlers == {"_finish_success", "_finish_error", "upgrade.re_enable"}

\* Install and upgrade-all runs in flight: a run is in flight from the start
\* of its worker thread until its completion handler has run.
RunsInFlight ==
    BagCardinality([w \in {x \in BagToSet(workers) :
                              x.kind \in {"install", "upgrade"}}
                    |-> workers[w]])
    + Cardinality({i \in 1..Len(afterQueue) :
                      afterQueue[i].fn \in CompletionHandlers})

\* Child processes of install and upgrade-all runs.
RunChildren ==
    BagCardinality([w \in {x \in BagToSet(workers) :
                              x.kind \in {"install", "upgrade"} /\ x.pc = "child"}
                    |-> workers[w]])

\* C1: at most one install or upgrade-all run is in flight at any time, with
\* at most one child process, and the busy flag is set exactly while a run is
\* in flight, so that a trigger during a run starts nothing.
C1_AtMostOneRunInFlight ==
    /\ RunsInFlight <= 1
    /\ RunChildren <= 1
    /\ installing <=> RunsInFlight = 1

\* A run's child is alive and the user can trigger another install: the
\* selection is not empty, no dialog is open, the install button has been
\* re-enabled by the setup worker, and a further thread could start.
C1_Witness ==
    /\ installing
    /\ RunChildren = 1
    /\ selected # {}
    /\ modal = "none"
    /\ btn_install
    /\ ENABLED ClickInstall
    /\ ENABLED KeyEnter

\* ------------------------------------------------ claims on the worker's end

\* The terminal callbacks of the install run, those that ran first.
TerminalCallbacks ==
    SelectSeq(uiLog \o afterQueue,
              LAMBDA cb : cb.fn \in {"_finish_success", "_finish_error"})

\* C11: an install run hands over at most one terminal outcome, and exactly
\* one once the worker has ended: _finish_success after a return (also for
\* the empty selection), _finish_error after an exception, never both; the
\* busy flag is cleared exactly when that handler has run.
C11_ExactlyOneTerminalOutcome ==
    /\ Len(TerminalCallbacks) <= 1
    /\ wpc = "finished" <=> Len(TerminalCallbacks) = 1
    /\ wpc = "finished" =>
          TerminalCallbacks[1].fn =
              IF outcome.kind \in {"result", "none"}
              THEN "_finish_success" ELSE "_finish_error"
    /\ installing <=>
          ~\E i \in 1..Len(uiLog) :
              uiLog[i].fn \in {"_finish_success", "_finish_error"}

\* A partial failure has been handed to _finish_success, after its warning,
\* and the handler has run.
C11_Witness ==
    /\ wpc = "finished"
    /\ afterQueue = <<>>
    /\ outcome.kind = "result"
    /\ outcome.failed # <<>>
    /\ ~installing
    /\ \E i \in 1..Len(uiLog) : uiLog[i].fn = "showwarning"
    /\ uiLog[Len(uiLog)].fn = "_finish_success"

\* ------------------------------------------------- claims on upgrade-all

\* Line i of ls lies in a summary block: an UPGRADE_SUMMARY_BEGIN precedes it
\* with no UPGRADE_SUMMARY_END in between.
InBlockAt(ls, i) ==
    \E j \in 1..(i - 1) :
        /\ ls[j] = <<up_begin>>
        /\ \A k \in (j + 1)..(i - 1) : ls[k] # <<up_end>>

\* The positions of the in-block lines of ls that start with prefix.
InBlockWith(ls, prefix) ==
    {i \in 1..Len(ls) : InBlockAt(ls, i) /\ ls[i] # <<>> /\ Head(ls[i]) = prefix}

\* The n-th smallest element of the set of positions idx.
Nth(idx, n) == CHOOSE i \in idx : Cardinality({j \in idx : j <= i}) = n

\* The records of the in-block lines of ls that start with prefix, in order.
InBlockRecords(ls, prefix) ==
    LET idx == InBlockWith(ls, prefix)
    IN  [n \in 1..Cardinality(idx) |-> ParseRecord(Tail(ls[Nth(idx, n)]))]

\* ls without its out-of-block lines; the block delimiters stay.
WithoutOutOfBlock(ls) ==
    LET keep == {i \in 1..Len(ls) :
                    ls[i] \in {<<up_begin>>, <<up_end>>} \/ InBlockAt(ls, i)}
    IN  [n \in 1..Cardinality(keep) |-> ls[Nth(keep, n)]]

\* The finish() callbacks posted so far, those that ran first.
FinishCallbacks ==
    SelectSeq(uiLog \o afterQueue, LAMBDA cb : cb.fn = "upgrade.finish")

\* finish() has run.
FinishRan == \E i \in 1..Len(uiLog) : uiLog[i].fn = "upgrade.finish"

\* The run ended in the except branch: messagebox.showerror was posted.
HardError ==
    \E i \in 1..Len(uiLog \o afterQueue) :
        (uiLog \o afterQueue)[i].fn = "upgrade.showerror"

\* C12: the parsed summary of the lines read is made of the in-block lines
\* only, and equals the parsed summary of the same lines with the
\* out-of-block lines removed; finish() captures that summary.
C12_OutOfBlockLinesIgnored ==
    LET sm == ParseSummary(stream)
        kept == ParseSummary(WithoutOutOfBlock(stream))
    IN  /\ sm.updated = InBlockRecords(stream, up_updated)
        /\ sm.not_updated = InBlockRecords(stream, up_not_updated)
        /\ sm.had_none = (\E i \in 1..Len(stream) :
                             InBlockAt(stream, i) /\ stream[i] = <<up_none>>)
        /\ sm = kept
        /\ \A n \in 1..Len(FinishCallbacks) :
              /\ FinishCallbacks[n].name.updated = kept.updated
              /\ FinishCallbacks[n].name.not_updated = kept.not_updated
              /\ FinishCallbacks[n].name.had_none = kept.had_none

\* finish() has run on a stream with an UPDATED_APP line and UPGRADE_NONE
\* before the block and one NOT_UPDATED_APP record in the block.
C12_Witness ==
    /\ FinishRan
    /\ Len(stream) >= 4
    /\ \E i, j, k \in 1..Len(stream) :
          /\ ~InBlockAt(stream, i) /\ Head(stream[i]) = up_updated
          /\ ~InBlockAt(stream, j) /\ stream[j] = <<up_none>>
          /\ InBlockAt(stream, k) /\ Head(stream[k]) = up_not_updated
    /\ FinishCallbacks[1].name.updated = <<>>
    /\ ~FinishCallbacks[1].name.had_none
    /\ Len(FinishCallbacks[1].name.not_updated) = 1

\* The block holds UPGRADE_NONE and no record.
NoneOnlyBlock ==
    /\ \E i \in 1..Len(stream) : InBlockAt(stream, i) /\ stream[i] = <<up_none>>
    /\ InBlockWith(stream, up_updated) = {}
    /\ InBlockWith(stream, up_not_updated) = {}

\* C13: a block with UPGRADE_NONE and no record ends, for every exit code,
\* with empty updated and not-updated lists and the "nothing to upgrade"
\* status, without an error and without a summary popup.
C13_NoneOnlyIsNothingToUpgrade ==
    (FinishRan /\ NoneOnlyBlock)
        => /\ FinishCallbacks[1].name.updated = <<>>
           /\ FinishCallbacks[1].name.not_updated = <<>>
           /\ status.text = "Fertig - keine aktualisierbaren Programme gefunden."
           /\ progress = Frac(1, 1)
           /\ ~HardError
           /\ ~UpgradeFinishShowsInfo(FinishCallbacks[1].name)

\* A none-only block, record lines outside it, exit code 2; all callbacks ran.
C13_Witness ==
    /\ FinishRan
    /\ afterQueue = <<>>
    /\ NoneOnlyBlock
    /\ FinishCallbacks[1].name.rc = 2
    /\ \E i \in 1..Len(stream) : Head(stream[i]) = up_updated
    /\ status.text = "Fertig - keine aktualisierbaren Programme gefunden."

\* The number of in-block records.
InBlockTotal ==
    Cardinality(InBlockWith(stream, up_updated))
    + Cardinality(InBlockWith(stream, up_not_updated))

\* C14: a non-zero exit code with at least one summary record is reported as
\* the warning outcome with the counts updated / (updated + not updated), and
\* not as an error.
C14_NonZeroWithRecordsIsWarning ==
    (FinishRan /\ FinishCallbacks[1].name.rc # 0 /\ InBlockTotal > 0)
        => /\ status =
                Cb("status",
                   "Fertig (Warnung) ({total_updated}/{total}) Programme aktualisiert.",
                   <<Cardinality(InBlockWith(stream, up_updated)), InBlockTotal>>,
                   <<>>, 0)
           /\ ~HardError
           /\ UpgradeFinishShowsInfo(FinishCallbacks[1].name)

\* Exit code 1 with one updated and one not-updated record: "(1/2)".
C14_Witness ==
    /\ FinishRan
    /\ FinishCallbacks[1].name.rc = 1
    /\ status.nums = <<1, 2>>
    /\ status.text =
          "Fertig (Warnung) ({total_updated}/{total}) Programme aktualisiert."

\* C15 (as stated): a run that exits non-zero with no summary record and no
\* UPGRADE_NONE ends in the hard error, not in finish().
C15_NonZeroNoMarkersIsHardError ==
    \A n \in 1..Len(FinishCallbacks) :
        LET c == FinishCallbacks[n].name
        IN  (c.rc # 0 /\ c.updated = <<>> /\ c.not_updated = <<>> /\ ~c.had_none)
                => HardError

\* The run is an upgrade-all run.
UpgradeMode ==
    \/ wpc \in {"up_start", "up_read"}
    \/ \E i \in 1..Len(uiLog \o afterQueue) :
          (uiLog \o afterQueue)[i].fn = "upgrade.re_enable"

\* C16 (as stated): when the script file is missing, a run that needs the
\* script (an install of at least one id, an upgrade-all) launches no child
\* process, and once it has ended it has posted its error handler.
C16_MissingScriptLaunchesNothing ==
    (~script_exists /\ (app_ids # <<>> \/ UpgradeMode))
        => /\ proc = "none"
           /\ wpc = "finished" =>
                 \E i \in 1..Len(uiLog \o afterQueue) :
                     (uiLog \o afterQueue)[i].fn
                         \in {"_finish_error", "upgrade.showerror"}

\* ------------------------------------------ claims on the dependency check

\* The locals of the deps workers that have probed winget.
ProbedLocals ==
    {CHOOSE l \in w.ids : TRUE :
        w \in {x \in BagToSet(workers) : x.kind = "deps" /\ x.pc # "probe"}}

\* l holds a version of the form major.minor.patch.
HasTriple(l) ==
    /\ Len(l.ver) = 5
    /\ l.ver[1] \in Numerals /\ l.ver[3] \in Numerals /\ l.ver[5] \in Numerals
    /\ l.ver[2] = "." /\ l.ver[4] = "."

Major(l) == NumVal(l.ver[1])

Minor(l) == NumVal(l.ver[3])

Patch(l) == NumVal(l.ver[5])

\* (major, minor, patch) read as one number; every component is below 100.
Weight(a, b, c) == a * 10000 + b * 100 + c

\* C17: for a parsed triple the probe gives Outdated exactly when the triple
\* is lexicographically below (1, 12, 0), and Ok otherwise; 1.11.9 and 1.9.0
\* are Outdated, 1.12.0 and 1.12.1 are Ok.  The stored state is that result.
C17_OutdatedIffLexicographicallyBelow ==
    /\ \A l \in ProbedLocals :
          HasTriple(l) =>
              /\ l.state \in {"outdated", "ok"}
              /\ l.state = "outdated"
                    <=> Weight(Major(l), Minor(l), Patch(l)) < Weight(1, 12, 0)
              /\ l.ver \in {<<"1", ".", "11", ".", "9">>, <<"1", ".", "9", ".", "0">>}
                    => l.state = "outdated"
              /\ l.ver \in {<<"1", ".", "12", ".", "0">>, <<"1", ".", "12", ".", "1">>}
                    => l.state = "ok"
    /\ \A w \in BagToSet(workers) :
          (w.kind = "deps" /\ w.pc \notin {"probe", "store_state"})
              => winget_state = (CHOOSE l \in w.ids : TRUE).state

\* 1.11.9 was found and stored as outdated, and the label shows it.
C17_Witness ==
    /\ winget_state = "outdated"
    /\ winget_version = <<"1", ".", "11", ".", "9">>
    /\ dep_labels["winget"] =
          Label("fail", "Winget veraltet", <<"1", ".", "11", ".", "9">>)

\* C18 (as stated): Outdated whenever some component is smaller than the
\* same component of (1, 12, 0), Ok only when no component is smaller.
C18_OutdatedIffAnyComponentSmaller ==
    \A l \in ProbedLocals :
        HasTriple(l) =>
            (l.state = "outdated"
                <=> (Major(l) < 1 \/ Minor(l) < 12 \/ Patch(l) < 0))

\* C18 (amended): Outdated exactly when the first component, from the left,
\* that differs from the one of (1, 12, 0) is smaller; a later major is Ok
\* whatever the minor and the patch are.
C18_OutdatedIffFirstDifferenceSmaller ==
    \A l \in ProbedLocals :
        HasTriple(l) =>
            LET v == <<Major(l), Minor(l), Patch(l)>>
                diff == {k \in 1..3 : v[k] # MIN_WINGET_VERSION[k]}
                first == CHOOSE k \in diff : \A j \in diff : k <= j
            IN  /\ l.state = IF diff # {} /\ v[first] < MIN_WINGET_VERSION[first]
                             THEN "outdated" ELSE "ok"
                /\ Major(l) > 1 => l.state = "ok"

\* 2.0.0, whose minor is below 12, was found and stored as ok.
C18_Witness ==
    /\ winget_state = "ok"
    /\ winget_version = <<"2", ".", "0", ".", "0">>
    /\ dep_labels["winget"] =
          Label("ok", "Winget verfuegbar", <<"2", ".", "0", ".", "0">>)

\* The callbacks posted so far, those that ran first.
AllCallbacks == uiLog \o afterQueue

\* C19: a probe whose command timed out or could not be launched gives that
\* probe's negative result; the worker goes on in every case, and once it
\* has ended it has posted the update of all three labels and both buttons.
C19_FailedProbeIsNegativeResult ==
    /\ \A l \in ProbedLocals :
          /\ l.winget_launch \in {"timeout", "oserror"}
                => l.state = "missing" /\ l.ver = <<>>
          /\ (l.ps_launch # <<>>
                /\ \A i \in 1..Len(l.ps_launch) :
                      l.ps_launch[i] \in {"timeout", "oserror"})
                => ~l.ps_ok
          /\ l.app_launch \in {"timeout", "oserror"} => l.app_ver = <<>>
    /\ workers # EmptyBag
          => /\ AllCallbacks = <<>>
             /\ \/ ENABLED (\E cmd \in WingetCommands : DepsProbeWinget(cmd))
                \/ ENABLED DepsStoreState
                \/ ENABLED DepsStoreVersion
                \/ ENABLED (\E cmds \in PowershellCommands :
                               DepsProbePowershell(cmds))
                \/ ENABLED (\E cmd \in AppInstallerCommands :
                               DepsProbeAppInstaller(cmd))
                \/ ENABLED DepsStoreAppVersion
                \/ ENABLED DepsPublish
    /\ workers = EmptyBag
          => /\ Len(AllCallbacks) = 5
             /\ AllCallbacks[1].fn = "_update_winget_label"
             /\ AllCallbacks[1].text = winget_state
             /\ AllCallbacks[2].fn = "_set_dep_state"
             /\ AllCallbacks[2].text = "powershell"
             /\ AllCallbacks[3].fn = "_set_dep_state"
             /\ AllCallbacks[3].text = "desktop_app_installer"
             /\ AllCallbacks[3].nums = <<IF appinstaller_version # <<>> THEN 1 ELSE 0>>
             /\ AllCallbacks[4].fn = "_set_fix_button_state"
             /\ AllCallbacks[5].fn = "_set_upgrade_all_state"
             /\ afterQueue = <<>>
                   => \A d \in DepKeys : dep_labels[d].ui \in {"ok", "fail"}

\* All three probes timed out or could not be launched: the worker is about
\* to publish missing / false / none.
C19_Witness ==
    \E l \in ProbedLocals :
        /\ l.winget_launch = "timeout"
        /\ l.ps_launch = <<"timeout", "oserror">>
        /\ l.app_launch = "oserror"
        /\ winget_state = "missing"
        /\ appinstaller_version = <<>>
        /\ ENABLED DepsPublish

\* What one complete pass of the dependency check can leave in the three
\* fields: the state and the version of one get_winget_state() call and the
\* version of one get_appinstaller_version() call.
PassOutcomes ==
    {<<GetWingetState(c).state, GetWingetState(c).ver, GetAppInstallerVersion(a)>> :
        c \in WingetCommands, a \in AppInstallerCommands}

\* C20: once a pass has been published and shown, the three fields are at
\* every moment the complete outcome of one pass, never the state of one pass
\* beside the version of another, and the App Installer label never shows
\* the result of one pass beside the version of another.
C20_StatusIsOneCompletePass ==
    dep_labels["winget"].ui # "pending" =>
        /\ depStatus \in PassOutcomes
        /\ dep_labels["desktop_app_installer"].ui = "fail"
              => dep_labels["desktop_app_installer"].ver = <<>>

\* ------------------------------------------------- claims on the log file

\* C21 (as stated): an install or upgrade-all run that launched its child has
\* attempted to write a log file by the time it reports its outcome
\* (_finish_success, _finish_error or finish() is posted).
C21_LogAttemptedBeforeOutcome ==
    (proc # "none" /\ (TerminalCallbacks # <<>> \/ FinishCallbacks # <<>>))
        => log_writes # <<>>

\* The child of the setup run has run and run_winget_ps_setup has ended.
SetupRan == setup_call.phase \in {"returned", "raised"} /\ proc = "exited"

\* t without its leading and trailing blanks: the tokens from the first to
\* the last one that is not a blank.
Trimmed(t) ==
    LET solid == {i \in 1..Len(t) : t[i] # " "}
    IN  IF solid = {} THEN <<>>
        ELSE SubSeq(t, CHOOSE i \in solid : \A j \in solid : i <= j,
                       CHOOSE i \in solid : \A j \in solid : j <= i)

\* The on_error callbacks of the setup worker, those that ran first.
SetupErrors ==
    SelectSeq(uiLog \o afterQueue, LAMBDA cb : cb.fn = "fix.on_error")

\* C22: a setup run whose child ran fails exactly when the exit code is not
\* zero, whether or not the log could be written; the message is the trimmed
\* stderr if that is not empty, else the trimmed stdout if that is not empty,
\* else the text with the exit code, and the path of the log file follows it
\* in every case; on_error shows that message.
C22_SetupFailsIffNonZeroExit ==
    SetupRan =>
        /\ Len(log_writes) = 1
        /\ log_writes[1].log.rc = setup_call.rc
        /\ setup_call.phase = "raised" <=> setup_call.rc # 0
        /\ setup_call.phase = "raised" <=> SetupErrors # <<>>
        /\ setup_call.phase = "raised" =>
              LET err == Trimmed(setup_call.stderr)
                  out == Trimmed(setup_call.stdout)
                  body == SubSeq(setup_call.msg, 1, Len(setup_call.msg) - 2)
              IN  /\ setup_call.exc = "RuntimeError"
                  /\ Len(setup_call.msg) >= 3
                  /\ err # <<>> => body = err
                  /\ (err = <<>> /\ out # <<>>) => body = out
                  /\ (err = <<>> /\ out = <<>>)
                        => body = <<"Winget-Setup Fehlercode ",
                                    IF setup_call.rc = 1 THEN "1" ELSE "2">>
                  /\ setup_call.msg[Len(setup_call.msg)] = log_writes[1].log.path
                  /\ SetupErrors = <<Cb("fix.on_error", "", <<>>, setup_call.msg, 0)>>

\* The exit code was 2 with blank stderr and text in stdout, the log could
\* not be written, and on_error has shown the stdout text with the log path.
C22_Witness ==
    /\ SetupRan
    /\ setup_call.rc = 2
    /\ setup_call.stderr = <<" ">>
    /\ setup_call.msg = <<"out", "\n\nDetails siehe Log-Datei:\n", SetupLogPath>>
    /\ ~log_writes[1].written
    /\ \E i \in 1..Len(uiLog) : uiLog[i].fn = "fix.on_error"

\* ------------------------------------------ claims on the line classifier

\* The marker occurs in the line and at least one character follows it.
Has(marker, line) == \E i \in 1..(Len(line) - 1) : line[i] = marker

\* The one marker a line counts as: Start before Ok before FAILED_APPS.
Class(line) ==
    IF Has(re_start, line) THEN "start"
    ELSE IF Has(re_ok, line) THEN "ok"
    ELSE IF Has(re_failed, line) THEN "failed"
    ELSE "none"

\* The positions in the stream of the lines of class k.
ClassLines(k) == {i \in 1..Len(stream) : Class(stream[i]) = k}

\* The marker events on_event received for line n of the stream.
MarkerEventsOf(n) ==
    SelectSeq(delivered, LAMBDA d : d.src = n /\ d.ev.kind # "line")

\* C23: each line counts as at most one marker, Start before Ok before
\* FAILED_APPS: a line with the Start pattern gives the Start event only, a
\* line with the Ok pattern and no Start pattern gives the Ok event and one
\* entry of the ok-list, only a line with neither can set the failed list,
\* and a line with no pattern gives no event and changes neither list.
C23_AtMostOneMarkerPerLine ==
    wpc \in {"read", "returned", "raised", "finished"} =>
        /\ \A n \in 1..Len(stream) :
              LET evs == MarkerEventsOf(n)
              IN  /\ Len(evs) <= 1
                  /\ Class(stream[n]) = "start"
                        <=> (evs # <<>> /\ evs[1].ev.kind = "start")
                  /\ Class(stream[n]) = "ok"
                        <=> (evs # <<>> /\ evs[1].ev.kind = "ok")
        /\ Len(installed) = Cardinality(ClassLines("ok"))
        /\ done = Cardinality(ClassLines("ok"))
        /\ failed_ids_from_summary =
              IF ClassLines("failed") = {} THEN <<>> ELSE <<<<"b">>>>

\* A line with the Start and the Ok pattern and a line with the Ok and the
\* FAILED_APPS pattern were read: one Ok entry, no failed list, and the run
\* returned.
C23_Witness ==
    /\ wpc = "finished"
    /\ \E n \in 1..Len(stream) : stream[n] = <<re_start, " ", re_ok, " ", "a">>
    /\ \E n \in 1..Len(stream) : stream[n] = <<re_ok, " ", re_failed, " ", "a">>
    /\ Len(installed) = 1
    /\ failed_ids_from_summary = <<>>
    /\ outcome.kind = "result"

\* ------------------------------------- claims on the backend-script children

\* The child processes of the backend script: of setup, install and
\* upgrade-all runs.
ScriptChildren ==
    BagCardinality([w \in {x \in BagToSet(workers) :
                              x.kind \in {"setup", "install", "upgrade"}
                              /\ x.pc = "child"}
                    |-> workers[w]])

\* C24 (as stated): at most one child process of the backend script runs at
\* any time, whichever of setup, install and upgrade-all started it.
C24_AtMostOneScriptChild == ScriptChildren <= 1

\* ------------------------------------------------ claims on the busy flag

\* C25: whenever the child of an install or upgrade-all run has exited, the
\* busy flag is eventually cleared and the install button enabled again,
\* whether the run returned a result or raised.
C25_BusyFlagEventuallyCleared ==
    (proc = "exited") ~> (~installing /\ btn_install)

\* The child exited with a non-zero code, run_winget_ps_install raised, and
\* _finish_error has cleared the busy flag and enabled the button.
C25_Witness ==
    /\ proc = "exited"
    /\ outcome.kind = "RuntimeError"
    /\ \E i \in 1..Len(uiLog) : uiLog[i].fn = "_finish_error"
    /\ ~installing
    /\ btn_install

\* ------------------------------------------ claims on the install selection

\* C26 (as stated): the packages handed to the child of an install run are
\* those that were selected when the install was accepted, and an accepted
\* install, whose selection is never empty, never ends as an empty run.
C26_InstallsTheAcceptedSelection ==
    /\ \A w \in BagToSet(workers) :
          (w.kind = "install" /\ w.pc = "child") => w.ids = accepted
    /\ \A i \in 1..Len(afterQueue) :
          afterQueue[i].fn = "_finish_success" => afterQueue[i].nums # <<0, 0, 0>>

\* --------------------------------------- claims on overlapping checks

\* Every background thread has ended and every posted callback has run.
Quiescent == workers = EmptyBag /\ afterQueue = <<>> /\ modal = "none"

\* C27 (as stated): once every check has ended and its updates were shown,
\* the stored status is what one check, the one started last, computed, and
\* the upgrade-all button has the state that check computed from it.
C27_LastStartedCheckWins ==
    (Quiescent /\ dep_labels["winget"].ui \in {"ok", "fail"}) =>
        /\ depStatus \in PassOutcomes
        /\ btn_upgrade <=> winget_state = "ok"

\* ------------------------------------------ claims on the progress fraction

\* The progress fractions posted so far, in the order they were posted.
PostedFractions ==
    LET all == uiLog \o afterQueue
    IN  SelectSeq(all, LAMBDA cb : cb.fn = "progress.set")

\* n1 / d1 <= n2 / d2, for positive denominators.
FracLeq(a, b) == a[1] * b[2] <= b[1] * a[2]

\* C28 (as stated): during an install run the completed count never exceeds
\* the number of requested packages, every progress fraction posted lies in
\* [0, 1], and the posted fractions never decrease.
C28_ProgressBoundedAndMonotone ==
    /\ (app_ids # <<>> /\ wpc # "start") => done <= Len(app_ids)
    /\ \A i \in 1..Len(PostedFractions) :
          /\ FracLeq(Frac(0, 1), PostedFractions[i].nums)
          /\ FracLeq(PostedFractions[i].nums, Frac(1, 1))
    /\ \A i \in 1..Len(PostedFractions) : \A j \in i..Len(PostedFractions) :
          FracLeq(PostedFractions[i].nums, PostedFractions[j].nums)

====
